---- MODULE Spec2Model ----
(***************************************************************************)
(* Sandcastle: the Gmail import pipeline (message decoding, transaction    *)
(* extraction, bulk upsert into the transaction store) and the transaction *)
(* routes that act on the same store.                                      *)
(*                                                                         *)
(* Text is a sequence of one-character strings.  Amounts are integers in   *)
(* cents (Math.round(x * 100) / 100 of a number with at most two decimals).*)
(***************************************************************************)
EXTENDS Integers, Sequences, FiniteSets, TLC

\* null and undefined of a string-valued field
Null == "null"

\* an optional value is a sequence of length 0 (null, undefined, no match) or 1
None == <<>>

Some(x) == <<x>>

(* ---------------------------------------------------------------------- *)
(* Characters                                                             *)
(* ---------------------------------------------------------------------- *)

\* printable ASCII, code 32 .. 126, in code order (code 96 is written GRAVE)
Ascii ==
  <<" ", "!", "\"", "#", "$", "%", "&", "'", "(", ")", "*", "+", ",", "-", ".", "/",
    "0", "1", "2", "3", "4", "5", "6", "7", "8", "9", ":", ";", "<", "=", ">", "?",
    "@", "A", "B", "C", "D", "E", "F", "G", "H", "I", "J", "K", "L", "M", "N", "O",
    "P", "Q", "R", "S", "T", "U", "V", "W", "X", "Y", "Z", "[", "\\", "]", "^", "_",
    "GRAVE", "a", "b", "c", "d", "e", "f", "g", "h", "i", "j", "k", "l", "m", "n", "o",
    "p", "q", "r", "s", "t", "u", "v", "w", "x", "y", "z", "{", "|", "}", "~">>

\* the character a byte outside printable ASCII decodes to in this model
\* (control characters and U+FFFD are not told apart; none is a letter,
\* digit, white space or mark-up character)
OtherChar == "U+FFFD"

CharCode(c) == IF \E i \in 1..Len(Ascii) : Ascii[i] = c
               THEN 31 + (CHOOSE i \in 1..Len(Ascii) : Ascii[i] = c)
               ELSE IF c = "\n" THEN 10 ELSE IF c = "\t" THEN 9 ELSE 0

CharOf(b) == IF b >= 32 /\ b <= 126 THEN Ascii[b - 31]
             ELSE IF b = 10 THEN "\n" ELSE IF b = 9 THEN "\t" ELSE OtherChar

IsWs(c) == c \in {" ", "\t", "\n"}

IsDigit(c) == c \in {"0", "1", "2", "3", "4", "5", "6", "7", "8", "9"}

DigitVal(c) == CharCode(c) - 48

LowerCh(c) == LET b == CharCode(c) IN IF b >= 65 /\ b <= 90 THEN CharOf(b + 32) ELSE c

toLowerCase(t) == [i \in 1..Len(t) |-> LowerCh(t[i])]

\* pattern pat stands at position i of t (case-sensitive / case-insensitive)
StartsAt(t, i, pat) ==
  /\ i >= 1
  /\ i + Len(pat) - 1 <= Len(t)
  /\ \A k \in 1..Len(pat) : t[i + k - 1] = pat[k]

StartsAtCI(t, i, pat) ==
  /\ i >= 1
  /\ i + Len(pat) - 1 <= Len(t)
  /\ \A k \in 1..Len(pat) : LowerCh(t[i + k - 1]) = LowerCh(pat[k])

\* String.prototype.includes
includes(t, pat) == \E i \in 1..Len(t) : StartsAt(t, i, pat)

MinOf(S) == CHOOSE i \in S : \A j \in S : i <= j

\* the concatenation of F[lo], F[lo + 1], .., F[hi]
RECURSIVE FlatMap(_, _, _)
FlatMap(F, lo, hi) ==
  IF lo > hi THEN <<>>
  ELSE IF lo = hi THEN F[lo]
  ELSE LET mid == (lo + hi) \div 2 IN FlatMap(F, lo, mid) \o FlatMap(F, mid + 1, hi)

\* first index >= i that holds no white space (Len(t) + 1 when there is none): \s*
SkipWs(t, i) == MinOf({j \in i..Len(t) : ~IsWs(t[j])} \cup {Len(t) + 1})

\* template literal joining two texts with one blank
Join2(a, b) == a \o <<" ">> \o b

(* ---------------------------------------------------------------------- *)
(* String literals of the source                                          *)
(* ---------------------------------------------------------------------- *)

K_receive == <<"r", "e", "c", "e", "i", "v", "e">>

K_received == <<"r", "e", "c", "e", "i", "v", "e", "d">>

K_receiving == <<"r", "e", "c", "e", "i", "v", "i", "n", "g">>

K_credit == <<"c", "r", "e", "d", "i", "t">>

K_credited == <<"c", "r", "e", "d", "i", "t", "e", "d">>

P_nbsp == <<"&", "n", "b", "s", "p", ";">>

P_zwnj == <<"&", "z", "w", "n", "j", ";">>

P_amp == <<"&", "a", "m", "p", ";">>

P_amountLabel == <<"A", "m", "o", "u", "n", "t", ":">>

P_sgd == <<"S", "G", "D">>

P_sdollar == <<"S", "$">>

P_to == <<"T", "o", ":">>

P_from == <<"F", "r", "o", "m", ":">>

P_ifUnauthorised == <<"I", "f", " ", "u", "n", "a", "u", "t", "h", "o", "r", "i", "s", "e", "d">>

P_toView == <<"T", "o", " ", "v", "i", "e", "w">>

GmailImportName == <<"G", "m", "a", "i", "l", " ", "i", "m", "p", "o", "r", "t">>

P_textSlash == <<"t", "e", "x", "t", "/">>

(* ---------------------------------------------------------------------- *)
(* Message Body Decoder                                                   *)
(* ---------------------------------------------------------------------- *)

\* the standard base64 alphabet, value 0 .. 63
B64 ==
  <<"A", "B", "C", "D", "E", "F", "G", "H", "I", "J", "K", "L", "M", "N", "O", "P",
    "Q", "R", "S", "T", "U", "V", "W", "X", "Y", "Z", "a", "b", "c", "d", "e", "f",
    "g", "h", "i", "j", "k", "l", "m", "n", "o", "p", "q", "r", "s", "t", "u", "v",
    "w", "x", "y", "z", "0", "1", "2", "3", "4", "5", "6", "7", "8", "9", "+", "/">>

IsB64(c) == \E i \in 1..Len(B64) : B64[i] = c

B64Val(c) == (CHOOSE i \in 1..Len(B64) : B64[i] = c) - 1

\* input.replace(/-/g, '+').replace(/_/g, '/')
B64Normalize(input) ==
  [i \in 1..Len(input) |->
     IF input[i] = "-" THEN "+" ELSE IF input[i] = "_" THEN "/" ELSE input[i]]

\* normalized.padEnd(Math.ceil(normalized.length / 4) * 4, '=')
B64Pad(t) == t \o [i \in 1..((4 - (Len(t) % 4)) % 4) |-> "="]

\* the 6-bit values Buffer.from(.., 'base64') reads: it stops at the first '='
\* and passes over every character outside the alphabet
B64Values(t) ==
  LET stop == MinOf({i \in 1..Len(t) : t[i] = "="} \cup {Len(t) + 1})
      kept == SelectSeq(SubSeq(t, 1, stop - 1), IsB64)
  IN [i \in 1..Len(kept) |-> B64Val(kept[i])]

\* four 6-bit values give three bytes; a tail of three gives two, of two one
B64Group(v, i) ==
  LET n == Len(v) - i + 1 IN
  IF n < 2 THEN <<>>
  ELSE LET b1 == v[i] * 4 + (v[i + 1] \div 16) IN
       IF n = 2 THEN <<b1>>
       ELSE LET b2 == (v[i + 1] % 16) * 16 + (v[i + 2] \div 4) IN
            IF n = 3 THEN <<b1, b2>>
            ELSE <<b1, b2, (v[i + 2] % 4) * 64 + v[i + 3]>>

B64Bytes(v) ==
  LET G(k) == B64Group(v, 4 * k + 1) IN FlatMap([k \in 0..((Len(v) - 1) \div 4) |-> G(k)], 0, (Len(v) - 1) \div 4)

\* .toString('utf8'), for bytes of the ASCII range (others give OtherChar)
BytesToText(bytes) == [i \in 1..Len(bytes) |-> CharOf(bytes[i])]

decodeBase64Url(input) ==
  IF input = <<>> THEN <<>>
  ELSE BytesToText(B64Bytes(B64Values(B64Pad(B64Normalize(input)))))

\* a MIME part: [mimeType |-> text (<<>>: none), data |-> text (<<>>: no body.data),
\*               parts |-> sequence of parts (<<>>: none, or not an array)];
\* the payload of a message is optional
RECURSIVE collectBodyText(_)
RECURSIVE collectParts(_, _)
collectParts(parts, i) ==
  IF i > Len(parts) THEN <<>>
  ELSE <<" ">> \o collectBodyText(Some(parts[i])) \o collectParts(parts, i + 1)

collectBodyText(payload) ==
  IF payload = None THEN <<>>
  ELSE LET part == payload[1]
           own == IF part.data # <<>>
                  THEN <<" ">> \o decodeBase64Url(part.data) ELSE <<>>
           sub == collectParts(part.parts, 1)
           again == IF /\ part.mimeType # <<>>
                       /\ StartsAt(part.mimeType, 1, P_textSlash)
                       /\ part.data # <<>>
                    THEN <<" ">> \o decodeBase64Url(part.data) ELSE <<>>
       IN own \o sub \o again

(* ---------------------------------------------------------------------- *)
(* Text normalisation and the regular expressions of the extractor        *)
(* ---------------------------------------------------------------------- *)

\* first index >= i holding c, or 0
IndexOfChar(t, c, i) ==
  LET S == {j \in i..Len(t) : t[j] = c} IN IF S = {} THEN 0 ELSE MinOf(S)

\* .replace(/<[^>]*>/g, ' '): scanning from the left, a match starts at a '<'
\* that a '>' follows and ends at the first '>' after it.  Index i lies in a
\* match iff a '>' stands at or after i and a '<' stands at or before i with
\* no '>' between them; the match starts at the first such '<'.
TagOpenBefore(t, i) == {j \in 1..i : t[j] = "<" /\ \A k \in j..(i - 1) : t[k] # ">"}

InTag(t, i) == IndexOfChar(t, ">", i) # 0 /\ TagOpenBefore(t, i) # {}

StripTags(t) ==
  LET E(i) == IF ~InTag(t, i) THEN <<t[i]>>
              ELSE IF MinOf(TagOpenBefore(t, i)) = i THEN <<" ">> ELSE <<>>
  IN FlatMap([k \in 1..Len(t) |-> E(k)], 1, Len(t))

\* .replace(/pat/gi, rep) for a literal pat whose first character stands
\* nowhere else in it (two occurrences never overlap)
ReplaceAllCI(t, pat, rep) ==
  LET E(i) == IF StartsAtCI(t, i, pat) THEN rep
              ELSE IF \E j \in (i - Len(pat) + 1)..(i - 1) : StartsAtCI(t, j, pat) THEN <<>>
              ELSE <<t[i]>>
  IN FlatMap([k \in 1..Len(t) |-> E(k)], 1, Len(t))

\* .replace(/\s+/g, ' ')
CollapseWs(t) ==
  LET E(i) == IF ~IsWs(t[i]) THEN <<t[i]>>
              ELSE IF i = 1 \/ ~IsWs(t[i - 1]) THEN <<" ">> ELSE <<>>
  IN FlatMap([k \in 1..Len(t) |-> E(k)], 1, Len(t))

\* last index <= i that holds no white space (0 when there is none)
SkipWsBack(t, i) ==
  LET S == {j \in 1..i : ~IsWs(t[j])} IN IF S = {} THEN 0 ELSE CHOOSE j \in S : \A k \in S : k <= j

\* .trim()
Trim(t) == SubSeq(t, SkipWs(t, 1), SkipWsBack(t, Len(t)))

\* the textContent of parseGmailTransaction
NormalizeText(content) ==
  LET a == StripTags(content)
      b == ReplaceAllCI(a, P_nbsp, <<" ">>)
      c == ReplaceAllCI(b, P_zwnj, <<>>)
      d == ReplaceAllCI(c, P_amp, <<"&">>)
  IN Trim(CollapseWs(d))

\* last index of the run [0-9,]* that starts at i (i - 1 when it is empty)
DigitsCommasEnd(t, i) ==
  MinOf({j \in i..Len(t) : ~(IsDigit(t[j]) \/ t[j] = ",")} \cup {Len(t) + 1}) - 1

DigitsEnd(t, i) == MinOf({j \in i..Len(t) : ~IsDigit(t[j])} \cup {Len(t) + 1}) - 1

\* end of the optional group (?:\.[0-9]{1,2})? standing after index j
FractionEnd(t, j) ==
  IF j + 2 <= Len(t) /\ t[j + 1] = "." /\ IsDigit(t[j + 2])
  THEN IF j + 3 <= Len(t) /\ IsDigit(t[j + 3]) THEN j + 3 ELSE j + 2
  ELSE j

\* last index of [0-9][0-9,]*(?:\.[0-9]{1,2})? starting at the digit at s
NumberEnd(t, s) == FractionEnd(t, DigitsCommasEnd(t, s + 1))

\* last index of [0-9]+(?:\.[0-9]{1,2})? starting at the digit at s
PlainNumberEnd(t, s) == FractionEnd(t, DigitsEnd(t, s + 1))

\* /SGD\s*([0-9][0-9,]*(?:\.[0-9]{1,2})?)/i at position p: the group's
\* first and last index, or <<>> when the pattern does not stand at p
SgdAt(t, p) ==
  IF ~StartsAtCI(t, p, P_sgd) THEN <<>>
  ELSE LET s == SkipWs(t, p + Len(P_sgd)) IN
       IF s <= Len(t) /\ IsDigit(t[s]) THEN <<s, NumberEnd(t, s)>> ELSE <<>>

\* /Amount:\s*SGD\s*([0-9][0-9,]*(?:\.[0-9]{1,2})?)/i at position p
AmountLineAt(t, p) ==
  IF ~StartsAtCI(t, p, P_amountLabel) THEN <<>>
  ELSE SgdAt(t, SkipWs(t, p + Len(P_amountLabel)))

\* Array.from(textContent.matchAll(/Amount:.../gi)): the groups, in order.
\* No match can start inside another one (the pattern's 'A' stands only at
\* its start), so every position where the pattern stands is a match.
amountLineMatches(t) ==
  LET E(p) == LET m == AmountLineAt(t, p) IN
              IF m # <<>> THEN <<SubSeq(t, m[1], m[2])>> ELSE <<>>
  IN FlatMap([k \in 1..Len(t) |-> E(k)], 1, Len(t))

\* textContent.match(amountRegex): the group of the first match, or <<>>
amountRegexMatch(t) ==
  LET S == {p \in 1..Len(t) : SgdAt(t, p) # <<>>} IN
  IF S = {} THEN <<>> ELSE LET m == SgdAt(t, MinOf(S)) IN SubSeq(t, m[1], m[2])

\* /\.\d{2}$/.test(g)
EndsWithTwoDecimals(g) ==
  /\ Len(g) >= 3
  /\ g[Len(g) - 2] = "."
  /\ IsDigit(g[Len(g) - 1])
  /\ IsDigit(g[Len(g)])

\* Array.prototype.find: the first element satisfying the test, or <<>>
FindTwoDecimals(ms) ==
  LET S == {i \in 1..Len(ms) : EndsWithTwoDecimals(ms[i])} IN
  IF S = {} THEN <<>> ELSE ms[MinOf(S)]

\* amountLineMatches.find(..) || amountLineMatches[amountLineMatches.length - 1]
amountLineMatch(ms) ==
  LET f == FindTwoDecimals(ms) IN
  IF f # <<>> THEN f ELSE IF Len(ms) > 0 THEN ms[Len(ms)] ELSE <<>>

\* g.replace(/,/g, '')
NotComma(c) == c # ","

StripCommas(g) == SelectSeq(g, NotComma)

\* value of a run of digits
RECURSIVE NatOf(_, _)
NatOf(d, n) == IF n = 0 THEN 0 ELSE NatOf(d, n - 1) * 10 + DigitVal(d[n])

\* Math.round(Number.parseFloat(g) * 100) / 100, in cents, for g matching
\* [0-9]+(?:\.[0-9]{1,2})?
ToCents(g) ==
  LET dot == IndexOfChar(g, ".", 1) IN
  IF dot = 0 THEN NatOf(g, Len(g)) * 100
  ELSE LET whole == NatOf(SubSeq(g, 1, dot - 1), dot - 1)
           frac == SubSeq(g, dot + 1, Len(g))
       IN whole * 100 + (IF Len(frac) = 1 THEN DigitVal(frac[1]) * 10 ELSE NatOf(frac, 2))

\* /To:\s*([^]+?)(?=From:|If unauthorised|To view|$)/i
ToTerminatorAt(t, e) ==
  \/ e = Len(t) + 1
  \/ StartsAtCI(t, e, P_from)
  \/ StartsAtCI(t, e, P_ifUnauthorised)
  \/ StartsAtCI(t, e, P_toView)

\* [^]+? from c: the first e > c where a terminator stands
LazyEnd(t, c) == MinOf({e \in (c + 1)..(Len(t) + 1) : ToTerminatorAt(t, e)})

\* the group of the match standing at p, or <<>>: \s* takes all white space,
\* giving one character back when nothing follows it
ToAt(t, p) ==
  IF ~StartsAtCI(t, p, P_to) THEN <<>>
  ELSE LET w == SkipWs(t, p + Len(P_to))
           c == IF w <= Len(t) THEN w ELSE IF w - 1 >= p + Len(P_to) THEN w - 1 ELSE 0
       IN IF c = 0 THEN <<>> ELSE SubSeq(t, c, LazyEnd(t, c) - 1)

toMatch(t) ==
  LET S == {p \in 1..Len(t) : ToAt(t, p) # <<>>} IN
  IF S = {} THEN <<>> ELSE ToAt(t, MinOf(S))

(* ---------------------------------------------------------------------- *)
(* Transaction Extractor                                                  *)
(* ---------------------------------------------------------------------- *)

\* headers.find((h) => h.name === name)?.value || ''
RECURSIVE HeaderValue(_, _, _)
HeaderValue(headers, name, i) ==
  IF i > Len(headers) THEN <<>>
  ELSE IF headers[i].name = name THEN headers[i].value
  ELSE HeaderValue(headers, name, i + 1)

AllDigits(t) == Len(t) > 0 /\ \A i \in 1..Len(t) : IsDigit(t[i])

\* the time value of an Invalid Date (NaN)
InvalidDate == -1

\* new Date(Number(internalDate)): epoch milliseconds of a decimal string
DateOfNumber(t) == IF AllDigits(t) THEN NatOf(t, Len(t)) ELSE InvalidDate

\* new Date(dateHeader): Date headers are written as decimal instants in this
\* model; any other text is an Invalid Date
DateOfHeader(t) == IF AllDigits(t) THEN NatOf(t, Len(t)) ELSE InvalidDate

\* message.internalDate ? .. : dateHeader ? .. : new Date()
OccurredAt(message, dateHeader, now) ==
  IF message.internalDate # <<>> THEN DateOfNumber(message.internalDate)
  ELSE IF dateHeader # <<>> THEN DateOfHeader(dateHeader)
  ELSE now

\* receiveKeywords.some((keyword) => lower.includes(keyword))
ReceiveKeywords == {K_receive, K_received, K_receiving, K_credit, K_credited}

IsReceive(content) ==
  LET lower == toLowerCase(content) IN \E k \in ReceiveKeywords : includes(lower, k)

\* a result whose needsReview is never raised
ExtractedTransaction_noReview(message, name, from, amount, occurredAt) ==
  [name        |-> name,
   merchant    |-> from,
   amount      |-> amount,
   currency    |-> "SGD",
   occurredAt  |-> occurredAt,
   source      |-> "gmail",
   messageId   |-> message.id,
   threadId    |-> message.threadId,
   needsReview |-> FALSE]

ExtractedTransaction(message, name, from, amount, occurredAt) ==
  [name        |-> name,
   merchant    |-> from,
   amount      |-> amount,
   currency    |-> "SGD",
   occurredAt  |-> occurredAt,
   source      |-> "gmail",
   messageId   |-> message.id,
   threadId    |-> message.threadId,
   needsReview |-> (amount = None)]

\* an extractor that tries the bare pattern before the labelled one
ExtractAmount_bareFirst(textContent) ==
  LET bare == amountRegexMatch(textContent)
      amountMatch == IF bare # <<>> THEN bare
                     ELSE amountLineMatch(amountLineMatches(textContent))
  IN IF amountMatch # <<>> THEN Some(ToCents(StripCommas(amountMatch))) ELSE None

\* the amount of the body-aware extractor, from the normalised text:
\* None, or Some(cents)
ExtractAmount(textContent) ==
  LET line == amountLineMatch(amountLineMatches(textContent))
      amountMatch == IF line # <<>> THEN line ELSE amountRegexMatch(textContent)
  IN IF amountMatch # <<>> THEN Some(ToCents(StripCommas(amountMatch))) ELSE None

\* parseGmailTransaction of the body-aware extractor: None (null), or
\* Some(transaction)
parseGmailTransaction(message, now) ==
  LET subject     == HeaderValue(message.headers, "Subject", 1)
      from        == HeaderValue(message.headers, "From", 1)
      dateHeader  == HeaderValue(message.headers, "Date", 1)
      bodyText    == collectBodyText(message.payload)
      content     == Join2(Join2(subject, message.snippet), bodyText)
      textContent == NormalizeText(content)
      tm          == toMatch(textContent)
      to          == IF tm # <<>> THEN Trim(tm) ELSE <<>>
  IN IF IsReceive(content) THEN None
     ELSE Some(ExtractedTransaction(message,
                                    IF to # <<>> THEN to ELSE GmailImportName,
                                    from,
                                    ExtractAmount(textContent),
                                    OccurredAt(message, dateHeader, now)))

\* /(SGD|S\$)\s?([0-9]+(?:\.[0-9]{1,2})?)/i at position p: group 2, or <<>>
HeaderAmountAt(t, p) ==
  LET q == IF StartsAtCI(t, p, P_sgd) THEN p + Len(P_sgd)
           ELSE IF StartsAtCI(t, p, P_sdollar) THEN p + Len(P_sdollar) ELSE 0
      s == IF q > 0 /\ q <= Len(t) /\ IsWs(t[q]) THEN q + 1 ELSE q
  IN IF q > 0 /\ s <= Len(t) /\ IsDigit(t[s]) THEN <<s, PlainNumberEnd(t, s)>> ELSE <<>>

headerAmountMatch(t) ==
  LET S == {p \in 1..Len(t) : HeaderAmountAt(t, p) # <<>>} IN
  IF S = {} THEN <<>> ELSE LET m == HeaderAmountAt(t, MinOf(S)) IN SubSeq(t, m[1], m[2])

\* parseGmailTransaction of the header-only extractor (subject and snippet)
parseGmailTransaction_headers(message, now) ==
  LET subject    == HeaderValue(message.headers, "Subject", 1)
      from       == HeaderValue(message.headers, "From", 1)
      dateHeader == HeaderValue(message.headers, "Date", 1)
      content    == Join2(subject, message.snippet)
      amountMatch == headerAmountMatch(content)
  IN IF IsReceive(content) THEN None
     ELSE Some(ExtractedTransaction(message,
                                    IF subject # <<>> THEN subject ELSE GmailImportName,
                                    from,
                                    IF amountMatch # <<>>
                                    THEN Some(ToCents(amountMatch)) ELSE None,
                                    OccurredAt(message, dateHeader, now)))

(* ---------------------------------------------------------------------- *)
(* Messages the mail provider serves                                      *)
(* ---------------------------------------------------------------------- *)

TxtLabeledOneDecimal == <<"A", "m", "o", "u", "n", "t", ":", " ", "S", "G", "D", " ", "1", "2", ".", "3", " ">>

TxtLabeledTwoDecimals == <<"A", "m", "o", "u", "n", "t", ":", " ", "S", "G", "D", " ", "1", "5", ".", "5", "0", " ">>

TxtLabeledSmall == <<"A", "m", "o", "u", "n", "t", ":", " ", "S", "G", "D", " ", "7", ".", "0", "0", " ">>

TxtBare == <<"S", "G", "D", " ", "4", "5", ".", "0", "0", " ">>

TxtBareThousands == <<"s", "g", "d", "1", ",", "0", "2", "0", ".", "5", " ">>

TxtDollar == <<"S", "$", "9", ".", "5", " ">>

TxtNoise == <<"Y", "o", "u", " ", "p", "a", "i", "d", " ", "<", "b", ">", "T", "o", ":", " ", "B", "o", "b", " ", "&", "a", "m", "p", ";", " ", "C", "o", "<", "/", "b", ">", "&", "n", "b", "s", "p", ";">>

TxtCredited == <<"w", "a", "s", " ", "C", "r", "e", "d", "i", "t", "e", "d", " ">>

TxtZero == <<"S", "G", "D", " ", "0", ".", "0", "0", " ">>

TxtBank == <<"b", "a", "n", "k", "@", "e", "x", "a", "m", "p", "l", "e", ".", "c", "o", "m">>

TxtInstant == <<"1", "7", "0", "0">>

MimeHtml == <<"t", "e", "x", "t", "/", "h", "t", "m", "l">>

MimePlain == <<"t", "e", "x", "t", "/", "p", "l", "a", "i", "n">>

MimeAlternative == <<"m", "u", "l", "t", "i", "p", "a", "r", "t", "/", "a", "l", "t", "e", "r", "n", "a", "t", "i", "v", "e">>

NameEdited == <<"L", "u", "n", "c", "h">>

\* the provider's encoding of a body: base64url of the bytes, without padding
B64UrlChar(v) == IF v = 62 THEN "-" ELSE IF v = 63 THEN "_" ELSE B64[v + 1]

B64UrlGroup(b, i) ==
  LET n == Len(b) - i + 1
      c1 == B64UrlChar(b[i] \div 4)
  IN IF n = 1 THEN <<c1, B64UrlChar((b[i] % 4) * 16)>>
     ELSE LET c2 == B64UrlChar((b[i] % 4) * 16 + (b[i + 1] \div 16)) IN
          IF n = 2 THEN <<c1, c2, B64UrlChar((b[i + 1] % 16) * 4)>>
          ELSE <<c1, c2,
                 B64UrlChar((b[i + 1] % 16) * 4 + (b[i + 2] \div 64)),
                 B64UrlChar(b[i + 2] % 64)>>

B64UrlEncode(t) ==
  LET b == [i \in 1..Len(t) |-> CharCode(t[i])]
      G(k) == B64UrlGroup(b, 3 * k + 1)
  IN FlatMap([k \in 0..((Len(t) - 1) \div 3) |-> G(k)], 0, (Len(t) - 1) \div 3)

Header(name, value) == [name |-> name, value |-> value]

Part(mimeType, text, parts) ==
  [mimeType |-> mimeType, data |-> B64UrlEncode(text), parts |-> parts]

\* a message whose text stands in one place: the Subject header, the snippet,
\* the body of the top-level part, or the body of a child part
Places == {"subject", "snippet", "body", "part"}

MessageWith(id, place, text) ==
  [id           |-> id,
   threadId     |-> "t1",
   headers      |-> (IF place = "subject" THEN <<Header("Subject", text)>> ELSE <<>>)
                    \o <<Header("From", TxtBank)>>,
   snippet      |-> IF place = "snippet" THEN text ELSE <<>>,
   internalDate |-> TxtInstant,
   payload      |-> IF place = "body" THEN Some(Part(MimeHtml, text, <<>>))
                    ELSE IF place = "part"
                    THEN Some(Part(MimeAlternative, <<>>, <<Part(<<>>, text, <<>>)>>))
                    ELSE Some(Part(MimePlain, <<>>, <<>>))]

Users == {"u1", "u2"}

MsgIds == {"m1", "m2", "m3", "m4"}

\* users.messages.get: what the provider holds for each message id.
\*   m1  a labelled amount in the snippet
\*   m2  an amount of zero in the snippet
\*   m3  no amount at all, a recipient in the Subject header
\*   m4  an incoming-funds notification in the snippet
Mail(id) ==
  CASE id = "m1" -> MessageWith(id, "snippet", TxtLabeledTwoDecimals)
    [] id = "m2" -> MessageWith(id, "snippet", TxtZero)
    [] id = "m3" -> MessageWith(id, "subject", TxtNoise)
    [] OTHER     -> MessageWith(id, "snippet", TxtCredited)

\* users.messages.list: the pages the provider serves for the query, in order;
\* the last page carries no nextPageToken.  The provider repeats m1 on the
\* second page of u1; both users hold a message with the id m1.
Pages(u) ==
  IF u = "u1" THEN << <<"m1", "m2">>, <<"m1">> >>
  ELSE << <<"m1", "m3", "m4">> >>

(* ---------------------------------------------------------------------- *)
(* Credential Vault                                                       *)
(* ---------------------------------------------------------------------- *)

Min(a, b) == IF a <= b THEN a ELSE b

\* Besides ASCII, the vault's texts hold a two-byte character and a lone
\* surrogate, a code unit a string may hold and UTF-8 cannot encode.
CharEAcute == "U+00E9"

LoneSurrogate == "U+D800"

\* cipher.update(plainText, 'utf8'): the UTF-8 bytes of one character; a lone
\* surrogate is written as U+FFFD
Utf8Char(c) ==
  IF c = CharEAcute THEN <<195, 169>>
  ELSE IF c \in {LoneSurrogate, OtherChar} THEN <<239, 191, 189>>
  ELSE <<CharCode(c)>>

Utf8Encode(t) ==
  LET enc[k \in 0..Len(t)] == IF k = 0 THEN <<>> ELSE enc[k - 1] \o Utf8Char(t[k])
  IN enc[Len(t)]

\* decrypted.toString('utf8'): dec[i] is the text of the bytes from i on
Utf8Decode(b) ==
  LET n == Len(b)
      dec[i \in 1..(n + 1)] ==
        IF i > n THEN <<>>
        ELSE IF i + 1 <= n /\ b[i] = 195 /\ b[i + 1] = 169
             THEN <<CharEAcute>> \o dec[i + 2]
        ELSE IF i + 2 <= n /\ b[i] = 239 /\ b[i + 1] = 191 /\ b[i + 2] = 189
             THEN <<OtherChar>> \o dec[i + 3]
        ELSE <<CharOf(b[i])>> \o dec[i + 1]
  IN dec[1]

\* .toString('base64'): the standard alphabet, padded with '='
B64StdGroup(b, i) ==
  LET n == Len(b) - i + 1
      c1 == B64[(b[i] \div 4) + 1]
  IN IF n = 1 THEN <<c1, B64[(b[i] % 4) * 16 + 1], "=", "=">>
     ELSE LET c2 == B64[(b[i] % 4) * 16 + (b[i + 1] \div 16) + 1] IN
          IF n = 2 THEN <<c1, c2, B64[(b[i + 1] % 16) * 4 + 1], "=">>
          ELSE <<c1, c2,
                 B64[(b[i + 1] % 16) * 4 + (b[i + 2] \div 64) + 1],
                 B64[(b[i + 2] % 64) + 1]>>

B64StdEncode(b) ==
  LET groups == (Len(b) + 2) \div 3
      enc[k \in 0..groups] ==
        IF k = 0 THEN <<>> ELSE enc[k - 1] \o B64StdGroup(b, 3 * k - 2)
  IN enc[groups]

\* Buffer.from(payload, 'base64'), which reads both alphabets
B64StdDecode(t) ==
  LET v == B64Values(B64Normalize(t))
      groups == (Len(v) + 3) \div 4
      dec[k \in 0..groups] ==
        IF k = 0 THEN <<>> ELSE dec[k - 1] \o B64Group(v, 4 * k - 3)
  IN dec[groups]

HexDigits == <<"0", "1", "2", "3", "4", "5", "6", "7", "8", "9", "a", "b", "c", "d", "e", "f">>

HexUpper == <<"0", "1", "2", "3", "4", "5", "6", "7", "8", "9", "A", "B", "C", "D", "E", "F">>

IsHex(c) == \E i \in 1..Len(HexDigits) : HexDigits[i] = c \/ HexUpper[i] = c

HexVal(c) == (CHOOSE i \in 1..Len(HexDigits) : HexDigits[i] = c \/ HexUpper[i] = c) - 1

\* Buffer.from(key, 'hex'): one byte for every pair of hex digits, up to the
\* first pair that is not one
HexDecode(t) ==
  LET pairs == Len(t) \div 2
      bad   == {k \in 1..pairs : ~(IsHex(t[2 * k - 1]) /\ IsHex(t[2 * k]))}
      n     == MinOf(bad \cup {pairs + 1}) - 1
  IN [k \in 1..n |-> HexVal(t[2 * k - 1]) * 16 + HexVal(t[2 * k])]

KeyChars == 64

KeyBytes == 32

IvBytes == 12

TagEnd == 28

\* getKey(): the key, or the error it throws
getKey(keyText) ==
  IF keyText = None \/ Len(keyText[1]) # KeyChars
  THEN [threw |-> TRUE, key |-> <<>>]
  ELSE [threw |-> FALSE, key |-> HexDecode(keyText[1])]

\* AES-256-GCM is stood for by a cipher with the same shape: a keystream
\* fixed by key, nonce and position, added to the plaintext byte by byte, and
\* a 16-byte tag fixed by key, nonce and ciphertext, in which a change of one
\* byte of any of them changes the tag.  Forgery by chance is left out.
KeyStream(key, iv, j) ==
  (key[((j - 1) % KeyBytes) + 1] + iv[((j - 1) % IvBytes) + 1] + j) % 256

WeightedSum(b) ==
  LET sum[j \in 0..Len(b)] ==
        IF j = 0 THEN 0 ELSE (sum[j - 1] + b[j] * (2 * j + 1)) % 256
  IN sum[Len(b)]

\* a tag that covers the key only
AuthTag_keyOnly(key, iv, encrypted) == [i \in 1..(TagEnd - IvBytes) |-> (key[i] + i) % 256]

AuthTag(key, iv, encrypted) ==
  LET sum == WeightedSum(encrypted) IN
  [i \in 1..(TagEnd - IvBytes) |->
     (key[i] + 3 * key[i + 16] + 5 * iv[((i - 1) % IvBytes) + 1]
        + sum + 7 * Len(encrypted) + i) % 256]

CipherBytes(key, iv, plain) ==
  [j \in 1..Len(plain) |-> (plain[j] + KeyStream(key, iv, j)) % 256]

\* a decipher that leaves the keystream on
PlainBytes_noKeystream(key, iv, encrypted) == encrypted

PlainBytes(key, iv, encrypted) ==
  [j \in 1..Len(encrypted) |-> (encrypted[j] + 256 - KeyStream(key, iv, j)) % 256]

VaultNull == [status |-> "null", value |-> <<>>, error |-> "none"]

VaultValue(v) == [status |-> "value", value |-> v, error |-> "none"]

\* the errors of the vault: getKey's, createCipheriv's and createDecipheriv's
\* (key or tag of a wrong length), and decipher.final()'s when the tag does
\* not verify
VaultThrew(e) == [status |-> "threw", value |-> <<>>, error |-> e]

\* encrypt(plainText) with the nonce crypto.randomBytes(12) draws: plainText
\* is None (null, undefined) or Some(text)
encrypt(plainText, iv, keyText) ==
  IF plainText = None \/ plainText[1] = <<>> THEN VaultNull
  ELSE LET k == getKey(keyText) IN
       IF k.threw THEN VaultThrew("config")
       ELSE IF Len(k.key) # KeyBytes THEN VaultThrew("keylength")
       ELSE LET encrypted == CipherBytes(k.key, iv, Utf8Encode(plainText[1]))
                tag == AuthTag(k.key, iv, encrypted)
            IN VaultValue(B64StdEncode(iv \o tag \o encrypted))

\* a decrypt that reads the key before it looks at the payload
decrypt_keyFirst(payload, keyText) ==
  LET k == getKey(keyText) IN
  IF k.threw THEN VaultThrew("config")
  ELSE IF payload = None \/ payload[1] = <<>> THEN VaultNull
  ELSE LET raw == B64StdDecode(payload[1])
           iv == SubSeq(raw, 1, Min(IvBytes, Len(raw)))
           tag == SubSeq(raw, IvBytes + 1, Min(TagEnd, Len(raw)))
           encrypted == SubSeq(raw, TagEnd + 1, Len(raw))
       IN IF Len(k.key) # KeyBytes THEN VaultThrew("keylength")
          ELSE IF Len(iv) # IvBytes \/ Len(tag) # TagEnd - IvBytes
               THEN VaultThrew("taglength")
          ELSE IF tag # AuthTag(k.key, iv, encrypted) THEN VaultThrew("auth")
          ELSE VaultValue(Utf8Decode(PlainBytes(k.key, iv, encrypted)))

\* decrypt(payload): payload is None (null, undefined) or Some(text)
decrypt(payload, keyText) ==
  IF payload = None \/ payload[1] = <<>> THEN VaultNull
  ELSE LET raw == B64StdDecode(payload[1])
           iv == SubSeq(raw, 1, Min(IvBytes, Len(raw)))
           tag == SubSeq(raw, IvBytes + 1, Min(TagEnd, Len(raw)))
           encrypted == SubSeq(raw, TagEnd + 1, Len(raw))
           k == getKey(keyText)
       IN IF k.threw THEN VaultThrew("config")
          ELSE IF Len(k.key) # KeyBytes THEN VaultThrew("keylength")
          ELSE IF Len(iv) # IvBytes \/ Len(tag) # TagEnd - IvBytes
               THEN VaultThrew("taglength")
          ELSE IF tag # AuthTag(k.key, iv, encrypted) THEN VaultThrew("auth")
          ELSE VaultValue(Utf8Decode(PlainBytes(k.key, iv, encrypted)))

(* ---------------------------------------------------------------------- *)
(* State                                                                  *)
(* ---------------------------------------------------------------------- *)

\* slots for import requests in flight; a new request takes the first free one
Slots == <<"r1", "r2">>

Runs == {Slots[k] : k \in 1..Len(Slots)}

\* requests served in a behaviour: imports and transaction routes together
MaxRequests == 3

\* pieces of text in the message an extraction is tried on
MaxPieces == 2

VARIABLES
  store,       \* the Transaction collection: a set of documents
  nextId,      \* the next _id the store hands out
  run,         \* run[r]: the import request handled in slot r
  started,     \* import requests started so far: the instant new Date() reads
  ops,         \* requests served by the transaction routes so far
  extractor,   \* the deployed parseGmailTransaction: "body" or "headers"
  indexBuilt,  \* whether the server built the index the Transaction schema declares
  inserts,     \* history: inserts[<<u, m>>], documents an import inserted for (u, m)
  deletes,     \* history: deletes[<<u, m>>], documents of (u, m) the user deleted
  served,      \* history: the last response of a transaction route, where watched
  userView,    \* history: userView[id], document id as the user's last edit left it
  hits,        \* history: edited documents an import's upsert filter has matched
  lastImport,  \* history: the import that just completed, nothing having acted since
  exPieces,    \* extraction: the pieces of text the message is made of
  exPlace,     \* extraction: where in the message the text stands
  exOut,       \* extraction: None, or Some([by, result])
  envKey,      \* vault: process.env.ENCRYPTION_KEY, None when it is not set
  server,      \* vault: "boot" while index.js runs, "listening" after app.listen
  oauth,       \* vault: user.oauth as stored, each token None or Some(blob)
  sealed,      \* vault history: what the last login handed to encrypt
  vaultOut,    \* vault history: how the last login or client construction ended
  client,      \* vault: None, or Some(credentials) of the mail client last built
  malformed,   \* ids of the messages whose detail the provider serves ill-formed
  decoding,    \* decoder: the part tree handed to it, and the text it returned
  categories,  \* the Category collection: the stored categories, by id and userId
  catDel       \* None, or Some(the category) a DELETE /:id has removed and not yet cleared

vars == <<store, nextId, run, started, ops, extractor, indexBuilt, inserts, deletes,
          served, userView, hits, lastImport, exPieces, exPlace, exOut,
          envKey, server, oauth, sealed, vaultOut, client, malformed, decoding,
          categories, catDel>>

sysVars == <<store, nextId, run, started, ops, extractor, indexBuilt, inserts, deletes,
             userView, hits, lastImport, served>>

exVars == <<exPieces, exPlace, exOut>>

vaultVars == <<envKey, server, oauth, sealed, vaultOut, client>>

mailVars == <<malformed, decoding>>

catVars == <<categories, catDel>>

restVars == <<exVars, vaultVars, mailVars, catVars>>

IdleRun ==
  [pc        |-> "idle",
   user      |-> Null,
   mode      |-> Null,
   pageToken |-> 0,
   messages  |-> <<>>,
   asked     |-> <<>>,
   fetched   |-> <<>>,
   i         |-> 0,
   imported  |-> <<>>,
   w         |-> 0,
   found     |-> Null,
   response  |-> None,
   error     |-> "none",
   inserted  |-> 0,
   alone     |-> FALSE,
   follows   |-> None,
   atStart   |-> {}]

Pairs == Users \X MsgIds

\* what the history holds of the responses: nothing where nobody watches
\* them, and nothing yet where somebody does
Unwatched ==
  [watched |-> FALSE, op |-> "none", user |-> Null, id |-> 0, status |-> 0, returned |-> {}]

NoResponse == [Unwatched EXCEPT !.watched = TRUE]

StoreInit ==
  /\ store = {}
  /\ nextId = 1
  /\ run = [r \in Runs |-> IdleRun]
  /\ started = 0
  /\ ops = 0
  /\ inserts = [p \in Pairs |-> 0]
  /\ deletes = [p \in Pairs |-> 0]
  /\ userView = <<>>
  /\ hits = {}
  /\ lastImport = None

SysInit ==
  /\ StoreInit
  /\ served = Unwatched

(* ---------------------------------------------------------------------- *)
(* Transaction store                                                      *)
(* ---------------------------------------------------------------------- *)

\* a filter that matches no document
Matching_none(docs, uid, mid) == {}

\* documents the filter { userId, messageId } matches
Matching(docs, uid, mid) == {d \in docs : d.userId = uid /\ d.messageId = mid}

\* a filter on _id alone
ById_anyUser(docs, id, uid) == {d \in docs : d.id = id}

\* documents the filter { _id, userId } matches
ById(docs, id, uid) == {d \in docs : d.id = id /\ d.userId = uid}

\* the unique partial index on { userId, messageId }, for documents whose
\* messageId exists and is not null: may doc be inserted?  The index is
\* declared with partialFilterExpression { messageId: { $exists: true,
\* $ne: null } }.  $ne is not among the operators a partial filter expression
\* accepts, so a server rejects the createIndex of the automatic index build,
\* and nothing listens for that error: the application then runs on a
\* collection without the index.  Both outcomes of the build are modelled.
UniqueIndexAllows(docs, doc) ==
  \/ ~indexBuilt
  \/ doc.messageId = Null
  \/ Matching(docs, doc.userId, doc.messageId) = {}

\* the document an upsert inserts: $setOnInsert { ...item, userId }, the
\* schema's defaults for the rest
InsertedDoc(id, uid, item) ==
  [id          |-> id,
   userId      |-> uid,
   name        |-> item.name,
   merchant    |-> item.merchant,
   recipient   |-> Null,
   amount      |-> item.amount,
   currency    |-> item.currency,
   occurredAt  |-> item.occurredAt,
   categoryId  |-> Null,
   source      |-> item.source,
   messageId   |-> item.messageId,
   threadId    |-> item.threadId,
   needsReview |-> item.needsReview,
   notes       |-> Null]

\* { $set: updates } on a document
SetFields(doc, updates) ==
  [f \in DOMAIN doc |-> IF f \in DOMAIN updates THEN updates[f] ELSE doc[f]]

\* an upsert written with $set: it would write the extracted fields over
\* the document it matched
UpdateMatched_set(doc, item) == SetFields(doc, item)

\* what an upsert does to a document its filter matched: $setOnInsert sets
\* nothing on a match
UpdateMatched(doc, item) == doc

(* ---------------------------------------------------------------------- *)
(* Import routes                                                          *)
(* ---------------------------------------------------------------------- *)

MaxResultsBackfill == 500

MaxResultsRecent == 25

\* parseGmailTransaction(detail.data) of the deployed extractor, for every
\* message of the provider and every instant of the clock
Extracted ==
  [e \in {"body", "headers"} |->
     [id \in MsgIds |->
        [now \in 1..MaxRequests |->
           IF e = "body" THEN parseGmailTransaction(Mail(id), now)
           ELSE parseGmailTransaction_headers(Mail(id), now)]]]

Parse(id, now) == Extracted[extractor][id][now]

\* a loop that skips null results only: if (!parsed) continue;
Skipped_nullOnly(parsed) == parsed = None

\* if (!parsed || !parsed.amount) continue;
Skipped(parsed) ==
  parsed = None \/ parsed[1].amount = None \/ parsed[1].amount[1] = 0

\* every action of one actor ends what the history holds about the other
\* runs: that a run has been the only actor since it started, and that it
\* started right after one that completed so.  A handler that has returned
\* leaves nothing behind: its slot is idle again.
Quiet(rs, actor) ==
  [x \in Runs |-> IF x = actor THEN rs[x]
                  ELSE IF rs[x].pc \in {"idle", "done", "failed"} THEN IdleRun
                  ELSE [rs[x] EXCEPT !.alone = FALSE, !.follows = None, !.atStart = {}]]

\* res.json({ imported: writes.length })
Responded(rn) ==
  [rn EXCEPT !.pc = "done", !.response = Some(Len(rn.imported)),
             !.pageToken = 0, !.i = 0, !.w = 0, !.found = Null]

\* what Express's default error handler answers with status 500: the error
\* as it stands, or the status text in production
RawError == "500 with the error as thrown"

\* the handler rejects with error e.  The route has no catch: the Express of
\* the build either never hears of the rejection and writes no response, or
\* hands it to its default error handler.
Rejected(rn, e, handled) ==
  [rn EXCEPT !.pc = "failed", !.error = e,
             !.response = IF handled THEN Some(RawError) ELSE None,
             !.pageToken = 0, !.i = 0, !.w = 0, !.found = Null]

Completed(rn) ==
  IF rn.alone THEN Some([user |-> rn.user, messages |-> rn.messages]) ELSE None

Free(r) == run[r].pc \in {"idle", "done", "failed"}

FirstFree(r) == \E k \in 1..Len(Slots) : Slots[k] = r /\ Free(r) /\ \A j \in 1..(k - 1) : ~Free(Slots[j])

\* the request enters the handler: the client is built, the first list call is due
StartImport(r, u, mode) ==
  /\ FirstFree(r)
  /\ started + ops < MaxRequests
  /\ started' = started + 1
  /\ LET after == lastImport # None /\ lastImport[1].user = u IN
     run' = Quiet([run EXCEPT ![r] =
                     [IdleRun EXCEPT !.pc = "list", !.user = u, !.mode = mode,
                                     !.alone = TRUE,
                                     !.follows = IF after THEN Some(lastImport[1].messages)
                                                 ELSE None,
                                     !.atStart = IF after THEN store ELSE {}]], r)
  /\ lastImport' = None
  /\ UNCHANGED <<served, store, nextId, ops, extractor, indexBuilt, inserts, deletes, userView, hits>>

\* after the last list call: the for loop, or the response when it is empty
AfterList(rn) ==
  IF Len(rn.messages) = 0 THEN Responded(rn) ELSE [rn EXCEPT !.pc = "get", !.i = 1]

\* a full-month route that stops after its first list call
ListBackfill_onePage(r) ==
  /\ run[r].pc = "list"
  /\ run[r].mode = "backfill"
  /\ LET batch == Pages(run[r].user)[1]
         rn    == AfterList([run[r] EXCEPT !.messages = batch, !.asked = Append(@, 0)])
     IN /\ run' = Quiet([run EXCEPT ![r] = rn], r)
        /\ lastImport' = IF rn.pc = "done" THEN Completed(rn) ELSE None
  /\ UNCHANGED <<served, store, nextId, started, ops, extractor, indexBuilt, inserts, deletes,
                 userView, hits>>

\* one turn of the do .. while (pageToken) loop of the full-month route
ListBackfill(r) ==
  /\ run[r].pc = "list"
  /\ run[r].mode = "backfill"
  /\ LET pages == Pages(run[r].user)
         k     == run[r].pageToken + 1
         batch == SubSeq(pages[k], 1, Min(Len(pages[k]), MaxResultsBackfill))
         next  == IF k < Len(pages) THEN k ELSE 0
         got   == [run[r] EXCEPT !.messages = @ \o batch, !.pageToken = next,
                                 !.asked = Append(@, run[r].pageToken)]
         rn    == IF next # 0 THEN got ELSE AfterList(got)
     IN /\ run' = Quiet([run EXCEPT ![r] = rn], r)
        /\ lastImport' = IF rn.pc = "done" THEN Completed(rn) ELSE None
  /\ UNCHANGED <<served, store, nextId, started, ops, extractor, indexBuilt, inserts, deletes,
                 userView, hits>>

\* a recent route that follows nextPageToken as the full-month route does
ListRecent_allPages(r) ==
  /\ run[r].pc = "list"
  /\ run[r].mode = "recent"
  /\ LET pages == Pages(run[r].user)
         k     == run[r].pageToken + 1
         batch == SubSeq(pages[k], 1, Min(Len(pages[k]), MaxResultsRecent))
         next  == IF k < Len(pages) THEN k ELSE 0
         got   == [run[r] EXCEPT !.messages = @ \o batch, !.pageToken = next,
                                 !.asked = Append(@, run[r].pageToken)]
         rn    == IF next # 0 THEN got ELSE AfterList(got)
     IN /\ run' = Quiet([run EXCEPT ![r] = rn], r)
        /\ lastImport' = IF rn.pc = "done" THEN Completed(rn) ELSE None
  /\ UNCHANGED <<served, store, nextId, started, ops, extractor, indexBuilt, inserts, deletes,
                 userView, hits>>

\* the single list call of the recent route; its nextPageToken is not read
ListRecent(r) ==
  /\ run[r].pc = "list"
  /\ run[r].mode = "recent"
  /\ LET pages == Pages(run[r].user)
         batch == SubSeq(pages[1], 1, Min(Len(pages[1]), MaxResultsRecent))
         rn    == AfterList([run[r] EXCEPT !.messages = batch, !.asked = Append(@, 0)])
     IN /\ run' = Quiet([run EXCEPT ![r] = rn], r)
        /\ lastImport' = IF rn.pc = "done" THEN Completed(rn) ELSE None
  /\ UNCHANGED <<served, store, nextId, started, ops, extractor, indexBuilt, inserts, deletes,
                 userView, hits>>

\* why the provider rejects a call: the token is expired or revoked, or the
\* network or the quota fails
ErrorKinds == {"auth", "transient"}

\* a call that rejects while the bulk write is under way
ProviderError_late(r, kind) ==
  /\ run[r].pc \in {"list", "get", "write"}
  /\ \E handled \in BOOLEAN :
       run' = Quiet([run EXCEPT ![r] = Rejected(run[r], kind, handled)], r)
  /\ lastImport' = None
  /\ UNCHANGED <<served, store, nextId, started, ops, extractor, indexBuilt, inserts, deletes,
                 userView, hits>>

\* a list or get call rejects: the await throws, the handler has no catch
ProviderError(r, kind) ==
  /\ run[r].pc \in {"list", "get"}
  /\ \E handled \in BOOLEAN :
       run' = Quiet([run EXCEPT ![r] = Rejected(run[r], kind, handled)], r)
  /\ lastImport' = None
  /\ UNCHANGED <<served, store, nextId, started, ops, extractor, indexBuilt, inserts, deletes,
                 userView, hits>>

\* a loop that walks the list from its end
Get_backwards(r) ==
  /\ run[r].pc = "get"
  /\ \E id \in {run[r].messages[Len(run[r].messages) + 1 - run[r].i]} :
     \E parsed \in {Parse(id, started)} :
       LET kept == IF Skipped(parsed) THEN run[r].imported
                   ELSE Append(run[r].imported, parsed[1])
           got  == [run[r] EXCEPT !.imported = kept, !.i = @ + 1,
                                  !.fetched = Append(@, id)]
           rn   == IF run[r].i < Len(run[r].messages) THEN got
                   ELSE IF Len(kept) = 0 THEN Responded(got)
                   ELSE [got EXCEPT !.pc = "write", !.i = 0, !.w = 1]
       IN /\ run' = Quiet([run EXCEPT ![r] = rn], r)
          /\ lastImport' = IF rn.pc = "done" THEN Completed(rn) ELSE None
  /\ UNCHANGED <<served, store, nextId, started, ops, extractor, indexBuilt, inserts, deletes,
                 userView, hits>>

\* a loop that hands the store what it has as soon as one message qualifies
Get_eager(r) ==
  /\ run[r].pc = "get"
  /\ run[r].messages[run[r].i] \notin malformed
  /\ \E parsed \in {Parse(run[r].messages[run[r].i], started)} :
       LET kept == IF Skipped(parsed) THEN run[r].imported
                   ELSE Append(run[r].imported, parsed[1])
           got  == [run[r] EXCEPT !.imported = kept, !.i = @ + 1,
                                  !.fetched = Append(@, run[r].messages[run[r].i])]
           rn   == IF Len(kept) > 0 THEN [got EXCEPT !.pc = "write", !.i = 0, !.w = 1]
                   ELSE IF run[r].i < Len(run[r].messages) THEN got
                   ELSE Responded(got)
       IN /\ run' = Quiet([run EXCEPT ![r] = rn], r)
          /\ lastImport' = IF rn.pc = "done" THEN Completed(rn) ELSE None
  /\ UNCHANGED <<served, store, nextId, started, ops, extractor, indexBuilt, inserts, deletes,
                 userView, hits>>

\* one turn of the for loop: fetch the detail, extract, keep or skip
Get(r) ==
  /\ run[r].pc = "get"
  /\ run[r].messages[run[r].i] \notin malformed
  /\ \E parsed \in {Parse(run[r].messages[run[r].i], started)} :
     LET kept   == IF Skipped(parsed) THEN run[r].imported
                   ELSE Append(run[r].imported, parsed[1])
         got    == [run[r] EXCEPT !.imported = kept, !.i = @ + 1,
                                  !.fetched = Append(@, run[r].messages[run[r].i])]
         rn     == IF run[r].i < Len(run[r].messages) THEN got
                   ELSE IF Len(kept) = 0 THEN Responded(got)
                   ELSE [got EXCEPT !.pc = "write", !.i = 0, !.w = 1]
     IN /\ run' = Quiet([run EXCEPT ![r] = rn], r)
        /\ lastImport' = IF rn.pc = "done" THEN Completed(rn) ELSE None
  /\ UNCHANGED <<served, store, nextId, started, ops, extractor, indexBuilt, inserts, deletes,
                 userView, hits>>

\* the same turn on a detail whose payload.headers is no array (or whose
\* mimeType or body.data is no string): headers.find throws a TypeError inside
\* parseGmailTransaction, which the loop does not catch
GetThrows(r) ==
  /\ run[r].pc = "get"
  /\ run[r].messages[run[r].i] \in malformed
  /\ \E handled \in BOOLEAN :
       run' = Quiet([run EXCEPT ![r] =
                       Rejected([run[r] EXCEPT !.fetched = Append(@, run[r].messages[run[r].i])],
                                "extract", handled)], r)
  /\ lastImport' = None
  /\ UNCHANGED <<served, store, nextId, started, ops, extractor, indexBuilt, inserts, deletes,
                 userView, hits>>

\* the bulkWrite moves to its next operation, or resolves and the route responds
Advance(rn) ==
  IF rn.w < Len(rn.imported) THEN [rn EXCEPT !.w = @ + 1, !.found = Null]
  ELSE Responded(rn)

\* updateOne, upsert: the filter matches a document; $setOnInsert applies
WriteUpdate(r) ==
  /\ run[r].pc = "write"
  /\ run[r].found = Null
  /\ LET item == run[r].imported[run[r].w]
         ms   == Matching(store, run[r].user, item.messageId)
         rn   == Advance(run[r])
     IN /\ ms # {}
        /\ store' = (store \ ms) \cup {UpdateMatched(d, item) : d \in ms}
        /\ hits' = hits \cup {d.id : d \in {x \in ms : x.id \in DOMAIN userView}}
        /\ run' = Quiet([run EXCEPT ![r] = rn], r)
        /\ lastImport' = IF rn.pc = "done" THEN Completed(rn) ELSE None
  /\ UNCHANGED <<served, nextId, started, ops, extractor, indexBuilt, inserts, deletes, userView>>

\* updateOne, upsert: the filter matches nothing; an insert is due
WriteMiss(r) ==
  /\ run[r].pc = "write"
  /\ run[r].found = Null
  /\ Matching(store, run[r].user, run[r].imported[run[r].w].messageId) = {}
  /\ run' = Quiet([run EXCEPT ![r].found = "no"], r)
  /\ lastImport' = None
  /\ UNCHANGED <<served, store, nextId, started, ops, extractor, indexBuilt, inserts, deletes,
                 userView, hits>>

\* the insert of the upsert, the unique index allowing it
WriteInsert(r) ==
  /\ run[r].pc = "write"
  /\ run[r].found = "no"
  /\ LET item == run[r].imported[run[r].w]
         doc  == InsertedDoc(nextId, run[r].user, item)
         rn   == Advance([run[r] EXCEPT !.inserted = @ + 1])
     IN /\ UniqueIndexAllows(store, doc)
        /\ store' = store \cup {doc}
        /\ nextId' = nextId + 1
        /\ inserts' = [inserts EXCEPT ![<<run[r].user, item.messageId>>] = @ + 1]
        /\ run' = Quiet([run EXCEPT ![r] = rn], r)
        /\ lastImport' = IF rn.pc = "done" THEN Completed(rn) ELSE None
  /\ UNCHANGED <<served, started, ops, extractor, indexBuilt, deletes, userView, hits>>

\* the insert meets a document another request inserted meanwhile; the server
\* runs the upsert again, which now matches
WriteRetry(r) ==
  /\ run[r].pc = "write"
  /\ run[r].found = "no"
  /\ LET item == run[r].imported[run[r].w]
         doc  == InsertedDoc(nextId, run[r].user, item)
         ms   == Matching(store, run[r].user, item.messageId)
         rn   == Advance(run[r])
     IN /\ ~UniqueIndexAllows(store, doc)
        /\ store' = (store \ ms) \cup {UpdateMatched(d, item) : d \in ms}
        /\ hits' = hits \cup {d.id : d \in {x \in ms : x.id \in DOMAIN userView}}
        /\ run' = Quiet([run EXCEPT ![r] = rn], r)
        /\ lastImport' = IF rn.pc = "done" THEN Completed(rn) ELSE None
  /\ UNCHANGED <<served, nextId, started, ops, extractor, indexBuilt, inserts, deletes, userView>>

\* the same, on a server that reports the duplicate key: the ordered
\* bulkWrite stops and rejects
WriteDupKey(r) ==
  /\ run[r].pc = "write"
  /\ run[r].found = "no"
  /\ ~UniqueIndexAllows(store, InsertedDoc(nextId, run[r].user, run[r].imported[run[r].w]))
  /\ \E handled \in BOOLEAN :
       run' = Quiet([run EXCEPT ![r] = Rejected(run[r], "store", handled)], r)
  /\ lastImport' = None
  /\ UNCHANGED <<served, store, nextId, started, ops, extractor, indexBuilt, inserts, deletes,
                 userView, hits>>

(* ---------------------------------------------------------------------- *)
(* Transaction routes                                                     *)
(* ---------------------------------------------------------------------- *)

\* request bodies tried on POST / : the second fails createSchema (name is empty)
CreateBodies ==
  {[name |-> NameEdited, amount |-> Some(-500), occurredAt |-> TxtInstant,
    messageId |-> "m1", source |-> "gmail"],
   [name |-> <<>>, amount |-> Some(700), occurredAt |-> TxtInstant]}

\* request bodies tried on PATCH /:id : the last fails createSchema.partial()
PatchBodies ==
  {[name |-> NameEdited, amount |-> Some(0), notes |-> "split",
    messageId |-> "m2", source |-> "manual"],
   [name |-> <<>>]}

\* request bodies tried on POST /:id/move : the second has no categoryId
MoveBodies == {[categoryId |-> "c1"], [name |-> NameEdited]}

\* the keys of createSchema
SchemaKeys ==
  {"name", "merchant", "recipient", "amount", "currency", "occurredAt", "categoryId", "notes"}

Strip_passthrough(body) == body

\* parsed.data: a z.object() that is neither strict nor passthrough drops the
\* keys of the body that the schema does not name
Strip(body) == [k \in DOMAIN body \cap SchemaKeys |-> body[k]]

\* a field of the document that create builds from { userId, ...parsed.data,
\* occurredAt, source }: the value spread from the data, or the schema's
Spread(data, key, default) == IF key \in DOMAIN data THEN data[key] ELSE default

\* createSchema.partial().safeParse(body).success, for bodies of the right types
ValidPartial(body) == "name" \in DOMAIN body => Len(body.name) >= 1

\* createSchema.safeParse(body).success
ValidCreate(body) ==
  {"name", "amount", "occurredAt"} \subseteq DOMAIN body /\ ValidPartial(body)

\* ids a request may name: those of stored documents, and one of no document
TargetIds == {d.id : d \in store} \cup {0}

\* the route responds with the status and the documents rows
ServedRows(op, u, id, status, rows) ==
  /\ served' = IF served.watched
               THEN [watched |-> TRUE, op |-> op, user |-> u, id |-> id, status |-> status,
                     returned |-> {d.id : d \in rows}]
               ELSE served
  /\ started + ops < MaxRequests
  /\ ops' = ops + 1
  /\ run' = Quiet(run, Null)
  /\ lastImport' = None

\* the route responds with the status and no document
Served(op, u, id, status) == ServedRows(op, u, id, status, {})

\* the values of ?categoryId= tried on GET / : none, 'unsorted', an id
ListQueries == {None, Some("unsorted"), Some("c1")}

\* the filter of GET / : { userId }, with categoryId null or the one asked for
Listed(docs, u, q) ==
  {d \in docs : /\ d.userId = u
                /\ q # None => d.categoryId = (IF q[1] = "unsorted" THEN Null ELSE q[1])}

\* GET /api/transactions
ListTransactions(u, q) ==
  /\ ServedRows("list", u, 0, 200, Listed(store, u, q))
  /\ UNCHANGED <<store, nextId, started, extractor, indexBuilt, inserts, deletes, userView, hits>>

\* the document that Transaction.create builds from the body
CreatedDoc(id, u, body) ==
  [id          |-> id,
   userId      |-> u,
   name        |-> Strip(body).name,
   merchant    |-> <<>>,
   recipient   |-> Null,
   amount      |-> Strip(body).amount,
   currency    |-> "SGD",
   occurredAt  |-> DateOfHeader(Strip(body).occurredAt),
   categoryId  |-> Null,
   source      |-> "manual",
   messageId   |-> Spread(Strip(body), "messageId", Null),
   threadId    |-> Null,
   needsReview |-> FALSE,
   notes       |-> Null]

\* POST /api/transactions.  A document the unique index refuses makes
\* Transaction.create reject, and the request fail (on record as a 500).
CreateTransaction(u, body) ==
  IF ~ValidCreate(body)
  THEN /\ Served("create", u, 0, 400)
       /\ UNCHANGED <<store, nextId, started, extractor, indexBuilt, inserts, deletes, userView, hits>>
  ELSE IF ~UniqueIndexAllows(store, CreatedDoc(nextId, u, body))
  THEN /\ Served("create", u, 0, 500)
       /\ UNCHANGED <<store, nextId, started, extractor, indexBuilt, inserts, deletes, userView, hits>>
  ELSE /\ ServedRows("create", u, 0, 201, {CreatedDoc(nextId, u, body)})
       /\ store' = store \cup {CreatedDoc(nextId, u, body)}
       /\ nextId' = nextId + 1
       /\ UNCHANGED <<started, extractor, indexBuilt, inserts, deletes, userView, hits>>

\* findOneAndUpdate({ _id, userId }, { $set: updates }) of PATCH and move
UpdateOwn(op, u, id, updates) ==
  LET ms == ById(store, id, u) IN
  IF ms = {}
  THEN /\ Served(op, u, id, 404)
       /\ UNCHANGED <<store, nextId, started, extractor, indexBuilt, inserts, deletes, userView, hits>>
  ELSE LET d == CHOOSE x \in ms : TRUE
           e == SetFields(d, updates)
       IN /\ ServedRows(op, u, id, 200, {e})
          /\ store' = (store \ {d}) \cup {e}
          /\ userView' = (id :> e) @@ userView
          /\ UNCHANGED <<nextId, started, extractor, indexBuilt, inserts, deletes, hits>>

\* PATCH /api/transactions/:id
PatchTransaction(u, id, body) ==
  IF ~ValidPartial(body)
  THEN /\ Served("patch", u, id, 400)
       /\ UNCHANGED <<store, nextId, started, extractor, indexBuilt, inserts, deletes, userView, hits>>
  ELSE UpdateOwn("patch", u, id,
                 IF "occurredAt" \in DOMAIN body
                 THEN [Strip(body) EXCEPT !.occurredAt = DateOfHeader(@)] ELSE Strip(body))

\* POST /api/transactions/:id/move
MoveTransaction(u, id, body) ==
  IF "categoryId" \notin DOMAIN body
  THEN /\ Served("move", u, id, 400)
       /\ UNCHANGED <<store, nextId, started, extractor, indexBuilt, inserts, deletes, userView, hits>>
  ELSE UpdateOwn("move", u, id, [categoryId |-> body.categoryId])

\* DELETE /api/transactions/:id
DeleteTransaction(u, id) ==
  LET ms == ById(store, id, u) IN
  IF ms = {}
  THEN /\ Served("delete", u, id, 404)
       /\ UNCHANGED <<store, nextId, started, extractor, indexBuilt, inserts, deletes, userView, hits>>
  ELSE LET d == CHOOSE x \in ms : TRUE IN
       /\ Served("delete", u, id, 200)
       /\ store' = store \ {d}
       /\ deletes' = IF d.messageId = Null THEN deletes
                     ELSE [deletes EXCEPT ![<<u, d.messageId>>] = @ + 1]
       /\ userView' = [k \in DOMAIN userView \ {id} |-> userView[k]]
       /\ UNCHANGED <<nextId, started, extractor, indexBuilt, inserts, hits>>

(* ---------------------------------------------------------------------- *)
(* The system                                                             *)
(* ---------------------------------------------------------------------- *)

Extractors == {"body", "headers"}

Modes == {"backfill", "recent"}

ExIdle ==
  /\ exPieces = <<>>
  /\ exPlace = "subject"
  /\ exOut = None

\* a 64-digit hex key
KeyOf(c) == [i \in 1..KeyChars |-> c]

NoTokens == [accessToken |-> None, refreshToken |-> None, scope |-> None, expiryDate |-> None]

\* the server is up with a key, nobody has linked an account
VaultIdle ==
  /\ envKey = Some(KeyOf("a"))
  /\ server = "listening"
  /\ oauth = NoTokens
  /\ sealed = None
  /\ vaultOut = None
  /\ client = None

\* every detail the provider serves is well-formed, and the decoder has
\* been handed nothing
NoDecoding == [tree |-> None, text |-> None]

MailIdle == malformed = {} /\ decoding = NoDecoding

\* the categories every user starts with, and no delete of one under way
Categories == {[id |-> "c1", userId |-> "u1"], [id |-> "c2", userId |-> "u2"]}

CatIdle == categories = Categories /\ catDel = None

Init ==
  /\ SysInit
  /\ extractor \in Extractors
  /\ indexBuilt \in BOOLEAN
  /\ ExIdle
  /\ VaultIdle
  /\ MailIdle
  /\ CatIdle

Next ==
  \/ \E r \in Runs, u \in Users, mode \in Modes :
       StartImport(r, u, mode) /\ UNCHANGED restVars
  \/ \E r \in Runs : ListBackfill(r) /\ UNCHANGED restVars
  \/ \E r \in Runs : ListRecent(r) /\ UNCHANGED restVars
  \/ \E r \in Runs, kind \in ErrorKinds : ProviderError(r, kind) /\ UNCHANGED restVars
  \/ \E r \in Runs : Get(r) /\ UNCHANGED restVars
  \/ \E r \in Runs : WriteUpdate(r) /\ UNCHANGED restVars
  \/ \E r \in Runs : WriteMiss(r) /\ UNCHANGED restVars
  \/ \E r \in Runs : WriteInsert(r) /\ UNCHANGED restVars
  \/ \E r \in Runs : WriteRetry(r) /\ UNCHANGED restVars
  \/ \E r \in Runs : WriteDupKey(r) /\ UNCHANGED restVars
  \/ \E u \in Users, body \in CreateBodies :
       CreateTransaction(u, body) /\ UNCHANGED restVars
  \/ \E u \in Users, id \in TargetIds, body \in PatchBodies :
       PatchTransaction(u, id, body) /\ UNCHANGED restVars
  \/ \E u \in Users, id \in TargetIds, body \in MoveBodies :
       MoveTransaction(u, id, body) /\ UNCHANGED restVars
  \/ \E u \in Users, id \in TargetIds : DeleteTransaction(u, id) /\ UNCHANGED restVars
  \/ \E u \in Users, q \in ListQueries : ListTransactions(u, q) /\ UNCHANGED restVars

Spec == Init /\ [][Next]_vars

\* the same system over a mailbox in which the detail of m2 is ill-formed
MalformedIds == {"m2"}

InitMalformed ==
  /\ SysInit
  /\ extractor \in Extractors
  /\ indexBuilt \in BOOLEAN
  /\ ExIdle
  /\ VaultIdle
  /\ malformed = MalformedIds
  /\ decoding = NoDecoding
  /\ CatIdle

NextMalformed ==
  \/ Next
  \/ \E r \in Runs : GetThrows(r) /\ UNCHANGED restVars

SpecMalformed == InitMalformed /\ [][NextMalformed]_vars

\* the system of the body-aware extractor, with the responses of the
\* transaction routes on record
InitWatched ==
  /\ StoreInit
  /\ served = NoResponse
  /\ extractor = "body"
  /\ indexBuilt \in BOOLEAN
  /\ ExIdle
  /\ VaultIdle
  /\ MailIdle
  /\ CatIdle

SpecWatched == InitWatched /\ [][Next]_vars

(* ---------------------------------------------------------------------- *)
(* Properties of the import over the store                                *)
(* ---------------------------------------------------------------------- *)

DocsOf(u, m) == Matching(store, u, m)

C3_CountIsInserted ==
  \A r \in Runs : run[r].pc = "done" => run[r].response = Some(run[r].inserted)

\* C4 (dedup invariant): at every moment, whatever imports have run or are
\* running, the store holds at most one transaction for a (userId, messageId)
\* pair whose messageId is set.
C4_AtMostOne ==
  \A d1 \in store : \A d2 \in store :
    (d1.messageId # Null /\ d1.userId = d2.userId /\ d1.messageId = d2.messageId)
      => d1 = d2

\* C5 (exactly-once persistence): over any sequence of imports of a user,
\* with the user's edits, moves and deletes in between, no message is
\* inserted for the user more than once.  Stated for the server that built
\* the unique index, where imports that overlap cannot insert twice.
C5_InsertedOnce == indexBuilt => \A p \in Pairs : inserts[p] <= 1

\* messages of the provider that must not be persisted: a zero amount (m2),
\* no amount (m3), incoming funds (m4)
NotQualifying == {"m2", "m3", "m4"}

\* C6 (positive amounts only): every transaction an import hands to the
\* store, and every gmail row no user has edited, has a strictly positive
\* amount and needsReview false; messages with a zero amount, no amount or
\* an incoming-funds keyword are never stored.
C6_PositiveOnly ==
  /\ \A r \in Runs : \A k \in 1..Len(run[r].imported) :
       LET t == run[r].imported[k] IN
       /\ t.amount # None
       /\ t.amount[1] > 0
       /\ ~t.needsReview
       /\ t.messageId \notin NotQualifying
  /\ \A d \in store :
       (d.source = "gmail" /\ d.id \notin DOMAIN userView) =>
         /\ d.amount # None
         /\ d.amount[1] > 0
         /\ ~d.needsReview
         /\ d.messageId \notin NotQualifying

\* an import over a list with the message without amount and the incoming
\* one has completed, after an import over a list with the zero-amount
\* message; each stored its qualifying message and nothing else
C6_Witness ==
  \E r \in Runs :
    /\ run[r].pc = "done"
    /\ \E k \in 1..Len(run[r].messages) : run[r].messages[k] = "m3"
    /\ \E k \in 1..Len(run[r].messages) : run[r].messages[k] = "m4"
    /\ run[r].response = Some(1)
    /\ DocsOf(run[r].user, "m1") # {}
    /\ DocsOf("u1", "m1") # {}
    /\ DocsOf("u1", "m2") = {}

(* ---------------------------------------------------------------------- *)
(* Properties of the provider calls of an import                          *)
(* ---------------------------------------------------------------------- *)

\* the ids of pages k, k + 1, .. of a listing, in order
RECURSIVE PagesFrom(_, _)
PagesFrom(pages, k) ==
  IF k > Len(pages) THEN <<>> ELSE pages[k] \o PagesFrom(pages, k + 1)

Past(rn) == rn.pc \in {"get", "write", "done"}

\* C12 (pagination exhaustion): a full-month import asks for the pages in
\* order, each with the token of the response before it and none twice; its
\* candidate list is the concatenation of the pages asked for; and it leaves
\* the list loop only when it has asked for every page the provider serves.
C12_BackfillAllPages ==
  \A r \in Runs :
    run[r].mode = "backfill" =>
      LET pages == Pages(run[r].user)
          n     == Len(run[r].asked)
      IN /\ n <= Len(pages)
         /\ run[r].asked = [k \in 1..n |-> k - 1]
         /\ run[r].messages = PagesFrom(SubSeq(pages, 1, n), 1)
         /\ Past(run[r]) => (n = Len(pages) /\ run[r].messages = PagesFrom(pages, 1))

\* a full-month import over a listing of more than one page has responded
C12_Witness ==
  \E r \in Runs :
    /\ run[r].pc = "done"
    /\ run[r].mode = "backfill"
    /\ Len(Pages(run[r].user)) >= 2
    /\ Len(run[r].asked) = Len(Pages(run[r].user))

\* C13 (recent mode, one bounded page): a recent import issues one list call,
\* without a page token and with a bounded result count, does not follow the
\* nextPageToken of its response, and fetches only ids of that page.
C13_RecentOnePage ==
  \A r \in Runs :
    run[r].mode = "recent" =>
      LET first == Pages(run[r].user)[1] IN
      /\ run[r].pc = "list" => run[r].asked = <<>>
      /\ Past(run[r]) =>
           /\ run[r].asked = <<0>>
           /\ run[r].messages = SubSeq(first, 1, Min(Len(first), MaxResultsRecent))
           /\ Len(run[r].messages) <= MaxResultsRecent
      /\ Len(run[r].fetched) <= Len(run[r].messages)
      /\ run[r].fetched = SubSeq(run[r].messages, 1, Len(run[r].fetched))

\* a recent import has responded, having fetched the ids of the first page
\* of a listing whose first response carried a nextPageToken
C13_Witness ==
  \E r \in Runs :
    /\ run[r].pc = "done"
    /\ run[r].mode = "recent"
    /\ Len(Pages(run[r].user)) >= 2
    /\ run[r].asked = <<0>>
    /\ run[r].fetched = Pages(run[r].user)[1]

\* the step in which the provider rejects the pending call of run r, for the
\* reason kind, and the handler is left
RejectedFor(r, kind) ==
  /\ run[r].pc \in {"list", "get"}
  /\ run'[r].pc = "failed"
  /\ run'[r].error = kind

\* the outcomes the trigger reports besides the count of a success
Outcomes == {"reconnect required", "import failed, try again", "temporarily unavailable"}

\* C18 (auth failure aborts the run): when the provider rejects a list or get
\* call because the token is expired or revoked, the run stops in that step
\* without another call, it issues no call afterwards, and the caller is
\* answered with the outcome "reconnect required".
C18_AuthAborts ==
  [][\A r \in Runs :
       /\ RejectedFor(r, "auth") =>
            /\ run'[r].asked = run[r].asked
            /\ run'[r].fetched = run[r].fetched
            /\ run'[r].response # None
            /\ run'[r].response[1] = "reconnect required"
       /\ (run[r].pc = "failed" /\ run[r].error = "auth") =>
            /\ run'[r].asked \in {run[r].asked, <<>>}
            /\ run'[r].fetched \in {run[r].fetched, <<>>}]_vars

\* C19 (every invocation is answered): a handler that has been left, by its
\* response or by an error, has answered the request, with the count of a
\* success or with one of the three outcomes.
C19_AlwaysResponds ==
  \A r \in Runs :
    /\ run[r].pc = "done" => (run[r].response # None /\ run[r].response[1] \in Nat)
    /\ run[r].pc = "failed" => (run[r].response # None /\ run[r].response[1] \in Outcomes)

\* C20 (transient errors are retried): a network or rate-limit failure of a
\* call does not abort a run none of whose calls has failed before: the call
\* is tried again, and the run is aborted only when the attempts are used up.
C20_TransientRetried ==
  [][\A r \in Runs : ~(run[r].error = "none" /\ RejectedFor(r, "transient"))]_vars

\* C21 (per-message failure isolation): no run is aborted by the failure
\* of the extraction of one message; a run that has met an ill-formed detail
\* goes on to the remaining messages and ends with its response.
C21_Isolated ==
  \A r \in Runs : ~(run[r].pc = "failed" /\ run[r].error = "extract")

\* the rows made by the manual create operation
ManualRows(u) == {d \in store : d.userId = u /\ d.source = "manual"}

\* C22 (manual rows are exempt from the dedup key): a row made by the manual
\* create operation carries no messageId, no create or patch (nor any other
\* step) changes the messageId or the source of a stored row, and no create
\* is refused by the uniqueness rule, however many manual rows the user has.
C22_ManualExempt ==
  /\ [](\A d \in store : d.source = "manual" => d.messageId = Null)
  /\ [](served.op = "create" => served.status \in {201, 400})
  /\ [][\A d \in store : \A e \in store' :
          d.id = e.id => (e.messageId = d.messageId /\ e.source = d.source)]_vars

\* two manual rows of one user side by side under the built index, the
\* second made from a body that named a messageId and a source, next to a
\* patched row
C22_Witness ==
  /\ indexBuilt
  /\ served.op = "create" /\ served.status = 201
  /\ \E u \in Users : Cardinality(ManualRows(u)) >= 2
  /\ userView # <<>>

\* the stages a run may pass from and to: listing, the loop that fetches and
\* extracts, the bulk write, the end; a slot that has ended is idle again or
\* taken by the next run
StageSteps ==
  {<<"idle", "list">>, <<"list", "get">>, <<"list", "done">>, <<"list", "failed">>,
   <<"get", "write">>, <<"get", "done">>, <<"get", "failed">>,
   <<"write", "done">>, <<"write", "failed">>,
   <<"done", "idle">>, <<"done", "list">>, <<"failed", "idle">>, <<"failed", "list">>}

FetchedIds(r) == {run[r].fetched[k] : k \in 1..Len(run[r].fetched)}

\* C23 (stage ordering): a run lists, then fetches and extracts, then writes,
\* then ends; nothing is fetched while it lists, what it has extracted it
\* has fetched, it writes only once every listed message is fetched and
\* extracted, and it never comes back to the write once it has left it.
C23_StageOrder ==
  /\ [](\A r \in Runs :
          /\ run[r].pc = "list" => (run[r].fetched = <<>> /\ run[r].imported = <<>>)
          /\ \A k \in 1..Len(run[r].imported) :
               run[r].imported[k].messageId \in FetchedIds(r)
          /\ run[r].pc = "write" => run[r].fetched = run[r].messages)
  /\ [][\A r \in Runs :
          /\ run'[r].pc # run[r].pc => <<run[r].pc, run'[r].pc>> \in StageSteps
          /\ run'[r].inserted > run[r].inserted =>
               (run[r].pc = "write" /\ run[r].fetched = run[r].messages)]_vars

\* a run that has listed three messages, fetched them all, and written
C23_Witness ==
  \E r \in Runs :
    /\ run[r].pc = "done"
    /\ Len(run[r].messages) = 3
    /\ run[r].fetched = run[r].messages
    /\ run[r].inserted >= 2

\* the provider calls a run has made
Calls(rn) == Len(rn.asked) + Len(rn.fetched)

\* the ids of the items a run has kept, in the order it kept them
KeptIds(r) == [k \in 1..Len(run[r].imported) |-> run[r].imported[k].messageId]

\* the items of s come from places of t that follow one another
InOrderOf(s, t) ==
  /\ \A k \in 1..Len(s) : \E a \in 1..Len(t) : t[a] = s[k]
  /\ \A j \in 1..Len(s) : \A k \in (j + 1)..Len(s) :
       \E a \in 1..Len(t) : \E b \in (a + 1)..Len(t) : t[a] = s[j] /\ t[b] = s[k]

\* C24 (sequential processing): the details a run has fetched are the first
\* ones of its list, in the list's order, the items it has kept follow that
\* order, and no step of a run makes more than one provider call.
C24_Sequential ==
  /\ [](\A r \in Runs :
          /\ Len(run[r].fetched) <= Len(run[r].messages)
          /\ run[r].fetched = SubSeq(run[r].messages, 1, Len(run[r].fetched))
          /\ InOrderOf(KeptIds(r), run[r].fetched))
  /\ [][\A r \in Runs :
          run'[r].user = run[r].user => Calls(run'[r]) <= Calls(run[r]) + 1]_vars

\* a run in the middle of a list of three different messages, the second of
\* which it has fetched and not kept
C24_Witness ==
  \E r \in Runs :
    /\ run[r].pc = "get"
    /\ Len(run[r].messages) = 3
    /\ Len(run[r].fetched) = 2
    /\ Len(run[r].imported) = 1
    /\ run[r].messages[1] # run[r].messages[3]

\* a step in which run r makes a provider call, the call answered or failed
CallStep(r) ==
  /\ run[r].pc \in {"list", "get"}
  /\ run'[r].user = run[r].user
  /\ Calls(run'[r]) = Calls(run[r]) + 1 \/ run'[r].pc = "failed"

\* C27 (all-or-nothing on failure): a run that a failed list or get call has
\* ended has inserted nothing, whatever it had fetched and extracted before,
\* and no step in which a run makes a provider call changes the store.
C27_AllOrNothing ==
  /\ [](\A r \in Runs :
          /\ (run[r].pc = "failed" /\ run[r].error \in ErrorKinds) => run[r].inserted = 0
          /\ run[r].pc \in {"list", "get"} => run[r].inserted = 0)
  /\ [][\A r \in Runs : CallStep(r) => (store' = store /\ inserts' = inserts)]_vars

\* a get call has failed in a run that had already extracted a qualifying
\* message, and the store holds no row of that message
C27_Witness ==
  \E r \in Runs :
    /\ run[r].pc = "failed"
    /\ run[r].error \in ErrorKinds
    /\ Len(run[r].fetched) >= 1
    /\ Len(run[r].imported) >= 1
    /\ DocsOf(run[r].user, run[r].imported[1].messageId) = {}

\* C28 (concurrent import runs): no run is ended by the store refusing a row
\* that an overlapping run inserted first, and when a run has completed,
\* every message it qualified has exactly one row of its user, as long as
\* the user has deleted none.
C28_ConcurrentRuns ==
  \A r \in Runs :
    /\ ~(run[r].pc = "failed" /\ run[r].error = "store")
    /\ (run[r].pc = "done" /\ \A p \in Pairs : deletes[p] = 0) =>
         \A k \in 1..Len(run[r].imported) :
           Cardinality(DocsOf(run[r].user, run[r].imported[k].messageId)) = 1

\* the rows that are and stay another user's than u
KeptFrom(u) == \A d \in store : d.userId # u => d \in store'

\* C29 (user isolation): a transaction route answering user u returns rows
\* of u only, answers a request that names another user's row with Not Found
\* (or refuses its body), and leaves every other user's row as it was and
\* makes none; a step of an import removes or changes no row and inserts
\* rows of the user of the run only.
C29_UserIsolation ==
  /\ [](/\ \A id \in served.returned : \A d \in store :
             d.id = id => d.userId = served.user
        /\ (served.op \in {"patch", "move", "delete"} /\
              \E d \in store : d.id = served.id /\ d.userId # served.user)
             => served.status \in {400, 404})
  /\ [][IF ops' = ops + 1
        THEN /\ KeptFrom(served'.user)
             /\ \A d \in store' \ store : d.userId = served'.user
             /\ served'.status \in {400, 404} => store' = store
        ELSE /\ store \subseteq store'
             /\ \A d \in store' \ store :
                  \E r \in Runs : /\ run[r].pc = "write"
                                   /\ run[r].user = d.userId
                                   /\ run'[r].inserted = run[r].inserted + 1]_vars

\* both users have a row of the message m1, and the second, naming the id
\* of the first's row in a patch, was answered Not Found
C29_Witness ==
  /\ served.op = "patch"
  /\ served.status = 404
  /\ \E d \in store : \E e \in store :
       /\ d.id = served.id
       /\ d.userId # served.user
       /\ e.userId = served.user
       /\ d.messageId = "m1"
       /\ e.messageId = "m1"

(* ---------------------------------------------------------------------- *)
(* Categories: the delete of one next to the transaction routes           *)
(* ---------------------------------------------------------------------- *)

CategoryIds == {"c1", "c2"}

\* documents of the Category collection the filter { _id, userId } matches
CategoryById(cats, id, uid) == {c \in cats : c.id = id /\ c.userId = uid}

\* DELETE /api/categories/:id, up to the await of findOneAndDelete: the
\* category is removed, or the route answers 404
DeleteCategoryFind(u, id) ==
  /\ catDel = None
  /\ Served("deleteCategory", u, 0, IF CategoryById(categories, id, u) = {} THEN 404 ELSE 200)
  /\ categories' = categories \ CategoryById(categories, id, u)
  /\ catDel' = IF CategoryById(categories, id, u) = {} THEN None
               ELSE Some([id |-> id, userId |-> u])
  /\ UNCHANGED <<store, nextId, started, extractor, indexBuilt, inserts, deletes, userView, hits>>

\* the rest of it: updateMany({ userId, categoryId }, { $set: { categoryId:
\* null } }), and the response
DeleteCategoryClear ==
  /\ catDel # None
  /\ store' = {IF d.userId = catDel[1].userId /\ d.categoryId = catDel[1].id
               THEN [d EXCEPT !.categoryId = Null] ELSE d : d \in store}
  /\ catDel' = None
  /\ run' = Quiet(run, Null)
  /\ lastImport' = None
  /\ UNCHANGED <<served, nextId, started, ops, extractor, indexBuilt, inserts, deletes,
                 userView, hits, categories>>

CatInit == Init

CatNext ==
  \/ \E u \in Users, body \in CreateBodies :
       CreateTransaction(u, body) /\ UNCHANGED restVars
  \/ \E u \in Users, id \in TargetIds, body \in PatchBodies :
       PatchTransaction(u, id, body) /\ UNCHANGED restVars
  \/ \E u \in Users, id \in TargetIds, body \in MoveBodies :
       MoveTransaction(u, id, body) /\ UNCHANGED restVars
  \/ \E u \in Users, id \in CategoryIds :
       DeleteCategoryFind(u, id) /\ UNCHANGED <<exVars, vaultVars, mailVars>>
  \/ DeleteCategoryClear /\ UNCHANGED <<exVars, vaultVars, mailVars>>

SpecCategories == CatInit /\ [][CatNext]_vars

\* the users a category of whom has been deleted, the delete completed
Cleared == {c.userId : c \in Categories \ categories} \ {c[1].userId : c \in {catDel} \ {None}}

\* C30 (no dangling category reference): once a delete of a category of a
\* user has completed, every transaction of that user has a categoryId that
\* is null or names a stored category of that user.
C30_NoDangling ==
  \A d \in store :
    d.userId \in Cleared =>
      \/ d.categoryId = Null
      \/ CategoryById(categories, d.categoryId, d.userId) # {}

(* ---------------------------------------------------------------------- *)
(* The extractor on its own: a message built from pieces of text          *)
(* ---------------------------------------------------------------------- *)

\* a piece of text and what it holds: an "Amount:"-labelled amount, a bare
\* "SGD" amount, an "S$" amount, an incoming-funds keyword, or none of these.
\* Every piece ends where no pattern can run on into the next piece.
Piece(kind, text, cents, twoDecimals) ==
  [kind |-> kind, text |-> text, cents |-> cents, twoDecimals |-> twoDecimals]

PieceNames == {"L1", "L2", "L3", "B", "BT", "D", "N", "R"}

PieceOf(n) ==
  CASE n = "L1" -> Piece("labeled", TxtLabeledOneDecimal, 1230, FALSE)
    [] n = "L2" -> Piece("labeled", TxtLabeledTwoDecimals, 1550, TRUE)
    [] n = "L3" -> Piece("labeled", TxtLabeledSmall, 700, TRUE)
    [] n = "B"  -> Piece("bare", TxtBare, 4500, TRUE)
    [] n = "BT" -> Piece("bare", TxtBareThousands, 102050, FALSE)
    [] n = "D"  -> Piece("dollar", TxtDollar, 950, FALSE)
    [] n = "N"  -> Piece("noise", TxtNoise, 0, FALSE)
    [] OTHER    -> Piece("receive", TxtCredited, 0, FALSE)

PieceSeqs == UNION {[1..n -> PieceNames] : n \in 0..MaxPieces}

TextOf(pieces) == LET T(i) == PieceOf(pieces[i]).text IN FlatMap([k \in 1..Len(pieces) |-> T(k)], 1, Len(pieces))

ExMessage == MessageWith("m1", exPlace, TextOf(exPieces))

ExInit ==
  /\ SysInit
  /\ extractor = "body"
  /\ indexBuilt = TRUE
  /\ exPieces \in PieceSeqs
  /\ exPlace \in Places
  /\ exOut = None
  /\ VaultIdle
  /\ MailIdle
  /\ CatIdle

\* the body-aware extractor is applied to the message
ExtractBody ==
  /\ exOut = None
  /\ exOut' = Some([by |-> "body", result |-> parseGmailTransaction(ExMessage, 1)])
  /\ UNCHANGED <<exPieces, exPlace>>
  /\ UNCHANGED <<sysVars, vaultVars, mailVars, catVars>>

\* the header-only extractor is applied to the message
ExtractHeaders ==
  /\ exOut = None
  /\ exOut' = Some([by |-> "headers", result |-> parseGmailTransaction_headers(ExMessage, 1)])
  /\ UNCHANGED <<exPieces, exPlace>>
  /\ UNCHANGED <<sysVars, vaultVars, mailVars, catVars>>

ExNext == ExtractBody \/ ExtractHeaders

SpecExtract == ExInit /\ [][ExNext]_vars

(* ---------------------------------------------------------------------- *)
(* The decoder on its own: a part tree of two levels                      *)
(* ---------------------------------------------------------------------- *)

MaxParts == 2

MimeImage == <<"i", "m", "a", "g", "e", "/", "p", "n", "g">>

TxtHi == <<"H", "i">>

\* the mime types of a part (<<>>: it has none) and the texts of its body
\* (<<>>: the body is empty or missing)
MimeTypes == {MimePlain, MimeHtml, MimeImage, <<>>}

BodyTexts == {TxtHi, <<>>}

Leaves == {Part(m, t, <<>>) : m \in MimeTypes, t \in BodyTexts}

Trees ==
  {Part(m, t, ps) : m \in MimeTypes, t \in BodyTexts,
                    ps \in UNION {[1..n -> Leaves] : n \in 0..MaxParts}}

DecodeInit ==
  /\ SysInit
  /\ extractor = "body"
  /\ indexBuilt = TRUE
  /\ ExIdle
  /\ VaultIdle
  /\ malformed = {}
  /\ CatIdle
  /\ decoding \in {[tree |-> Some(tree), text |-> None] : tree \in Trees}
                  \cup {NoDecoding}

\* collectBodyText is applied to the payload (a missing payload included)
Decode ==
  /\ decoding.text = None
  /\ decoding' = [decoding EXCEPT !.text = Some(collectBodyText(decoding.tree))]
  /\ UNCHANGED <<sysVars, exVars, vaultVars, malformed, catVars>>

DecodeNext == Decode

SpecDecode == DecodeInit /\ [][DecodeNext]_vars

\* the part with its type, and the types of its parts, replaced by one type
Retyped(part, mimeType) ==
  [part EXCEPT !.mimeType = mimeType,
               !.parts = [k \in 1..Len(part.parts) |->
                            [part.parts[k] EXCEPT !.mimeType = mimeType]]]

\* C25 (mime-type independence of the decoder): the text returned for a part
\* tree is the text returned for the same tree with every mime type replaced
\* by one that is no text type: a body counts as often under any type.
C25_MimeIndependent ==
  (decoding.text # None /\ decoding.tree # None) =>
    decoding.text[1] = collectBodyText(Some(Retyped(decoding.tree[1], MimeImage)))

(* ---------------------------------------------------------------------- *)
(* Properties of the extractor                                            *)
(* ---------------------------------------------------------------------- *)

\* positions of the pieces of one kind in the message
PiecesOfKind(kind) == {i \in 1..Len(exPieces) : PieceOf(exPieces[i]).kind = kind}

Labeled == PiecesOfKind("labeled")

LabeledTwoDecimals == {i \in Labeled : PieceOf(exPieces[i]).twoDecimals}

Bare == PiecesOfKind("bare")

CentsAt(i) == PieceOf(exPieces[i]).cents

MaxOf(S) == CHOOSE x \in S : \A y \in S : y <= x

\* C7 (needsReview): on every message for which an extractor returns a
\* transaction, needsReview is true exactly when the amount is null, and a
\* message without any currency amount in its text gets amount null and
\* needsReview true; the extractor always returns, it never throws.
C7_NeedsReview ==
  exOut # None =>
    LET res == exOut[1].result IN
    res # None =>
      /\ res[1].needsReview <=> (res[1].amount = None)
      /\ (Labeled \cup Bare \cup PiecesOfKind("dollar") = {}) =>
           (res[1].amount = None /\ res[1].needsReview)

\* an extractor has returned a transaction for a message with text but with
\* no amount in it, and flagged it for review
C7_Witness ==
  /\ exOut # None
  /\ exOut[1].result # None
  /\ Len(exPieces) > 0
  /\ Labeled \cup Bare \cup PiecesOfKind("dollar") = {}
  /\ exOut[1].result[1].needsReview

\* C8 (classification gate): an extractor returns null exactly when the
\* subject, the snippet or the decoded body holds an incoming-funds keyword.
C8_Gate ==
  exOut # None => ((exOut[1].result = None) <=> (PiecesOfKind("receive") # {}))

\* C9 (amount preference): with labelled amounts in the text, the body-aware
\* extractor returns the last one that has two decimals, or the last one of
\* all when none has two decimals.
C9_LastTwoDecimals ==
  (exOut # None /\ exOut[1].by = "body" /\ exOut[1].result # None /\ Labeled # {}) =>
    exOut[1].result[1].amount =
      Some(CentsAt(IF LabeledTwoDecimals # {} THEN MaxOf(LabeledTwoDecimals)
                   ELSE MaxOf(Labeled)))

TxtRecipient == <<"B", "o", "b", " ", "&", " ", "C", "o">>

\* C11 (display-name fallback chain): the name of a returned transaction is
\* the text after a "To:" label when the message has one; without one it is
\* the Subject header; and it is the placeholder only when the Subject header
\* is empty too.
C11_NameChain ==
  (exOut # None /\ exOut[1].result # None) =>
    LET name    == exOut[1].result[1].name
        subject == IF exPlace = "subject" THEN TextOf(exPieces) ELSE <<>>
    IN IF PiecesOfKind("noise") # {} THEN StartsAt(name, 1, TxtRecipient)
       ELSE IF subject # <<>> THEN name = subject
       ELSE name = GmailImportName

(* ---------------------------------------------------------------------- *)
(* The vault in the server: startup, login, client construction           *)
(* ---------------------------------------------------------------------- *)

MaxPlain == 1

\* what ENCRYPTION_KEY may be set to: nothing, two keys of 64 hex digits, a
\* key too short, and 64 characters that are not hex digits
EnvKeys ==
  {None, Some(KeyOf("a")), Some(KeyOf("b")), Some([i \in 1..(KeyChars - 2) |-> "a"]),
   Some(KeyOf("z"))}

ValidKey(k) == k # None /\ Len(k[1]) = KeyChars /\ Len(HexDecode(k[1])) = KeyBytes

PlainChars == {"a", CharEAcute, LoneSurrogate}

Texts == UNION {[1..n -> PlainChars] : n \in 0..MaxPlain}

\* the tokens Google hands to the strategy's callback
AccessTokens == {None} \cup {Some(t) : t \in Texts}

RefreshTokens == {None, Some(<<"r">>)}

\* nonces crypto.randomBytes(12) may draw
IvSet == {[i \in 1..IvBytes |-> 0], [i \in 1..IvBytes |-> (37 * i) % 256]}

Fields == {"accessToken", "refreshToken"}

Regions == {"nonce", "tag", "ciphertext"}

\* the first and the last byte of a region of the blob, as decrypt cuts it
RegionEnds(region, raw) ==
  IF region = "nonce" THEN {1, IvBytes}
  ELSE IF region = "tag" THEN {IvBytes + 1, TagEnd}
  ELSE {TagEnd + 1, Len(raw)}

\* the blob with one byte changed
Flip(blob, pos) ==
  LET raw == B64StdDecode(blob)
  IN B64StdEncode([raw EXCEPT ![pos] = (@ + 1) % 256])

Tokens == AccessTokens \cup RefreshTokens

\* encrypt(plainText) for every key, nonce and token; f @@ <<>> is f, which
\* TLC then holds as a table
Sealing == [p \in EnvKeys \X IvSet \X Tokens |-> encrypt(p[3], p[2], p[1])] @@ <<>>

SealedBlobs ==
  {Sealing[p].value : p \in {q \in EnvKeys \X IvSet \X Tokens : Sealing[q].status = "value"}}

\* the blobs Tamper can make of a blob
Flips ==
  [p \in SealedBlobs \X Regions |->
     {Flip(p[1], pos) : pos \in RegionEnds(p[2], B64StdDecode(p[1]))}] @@ <<>>

Blobs == SealedBlobs \cup UNION {Flips[p] : p \in SealedBlobs \X Regions}

\* decrypt(payload) for every key and every blob that can be stored
Opening == [p \in EnvKeys \X Blobs |-> decrypt(Some(p[2]), p[1])] @@ <<>>

Seal(plainText, iv) == Sealing[<<envKey, iv, plainText>>]

Open(payload) ==
  IF payload = None THEN decrypt(payload, envKey) ELSE Opening[<<envKey, payload[1]>>]

VaultInit ==
  /\ SysInit
  /\ extractor = "body"
  /\ indexBuilt = TRUE
  /\ ExIdle
  /\ envKey \in EnvKeys
  /\ server = "boot"
  /\ oauth = NoTokens
  /\ sealed = None
  /\ vaultOut = None
  /\ client = None
  /\ MailIdle
  /\ CatIdle

\* index.js runs to app.listen: nothing on the way reads ENCRYPTION_KEY
Startup ==
  /\ server = "boot"
  /\ server' = "listening"
  /\ UNCHANGED <<envKey, oauth, sealed, vaultOut, client>>
  /\ UNCHANGED <<sysVars, exVars, mailVars, catVars>>

\* the process is started again, with the key the environment now gives
Restart(k) ==
  /\ server = "listening"
  /\ server' = "boot"
  /\ envKey' = k
  /\ vaultOut' = None
  /\ client' = None
  /\ UNCHANGED <<oauth, sealed>>
  /\ UNCHANGED <<sysVars, exVars, mailVars, catVars>>

Stored(r) == IF r.status = "value" THEN Some(r.value) ELSE None

NotRun == [status |-> "notrun", value |-> <<>>, error |-> "none"]

\* profile._json?.scope and profile._json?.expiry_date as the provider's
\* profile may or may not carry them
Grants ==
  {[scope |-> None, expiryDate |-> None],
   [scope |-> Some("gmail.readonly"), expiryDate |-> Some(3600)]}

\* the Google strategy's verify callback: both tokens are encrypted and the
\* user is upserted with them; an error goes to done(err)
Login(accessToken, refreshToken, iv1, iv2) ==
  /\ server = "listening"
  /\ \E a \in {Seal(accessToken, iv1)} :
     \E b \in {IF a.status = "threw" THEN NotRun ELSE Seal(refreshToken, iv2)} :
       /\ vaultOut' = Some([op |-> "login", accessToken |-> a, refreshToken |-> b,
                            given |-> [accessToken |-> accessToken,
                                       refreshToken |-> refreshToken]])
       /\ IF a.status = "threw" \/ b.status = "threw"
          THEN UNCHANGED <<oauth, sealed>>
          ELSE /\ \E grant \in Grants :
                    oauth' = [accessToken |-> Stored(a), refreshToken |-> Stored(b),
                              scope |-> grant.scope, expiryDate |-> grant.expiryDate]
               /\ sealed' = Some([accessToken |-> accessToken,
                                  refreshToken |-> refreshToken,
                                  key |-> envKey, intact |-> TRUE,
                                  changed |-> "none"])
  /\ client' = None
  /\ UNCHANGED <<envKey, server>>
  /\ UNCHANGED <<sysVars, exVars, mailVars, catVars>>

\* one byte of a stored blob is changed outside the server
Tamper(field, region) ==
  /\ sealed # None
  /\ sealed[1].intact
  /\ oauth[field] # None
  /\ \E blob \in Flips[<<oauth[field][1], region>>] :
       oauth' = [oauth EXCEPT ![field] = Some(blob)]
  /\ sealed' = Some([sealed[1] EXCEPT !.intact = FALSE, !.changed = field])
  /\ vaultOut' = None
  /\ client' = None
  /\ UNCHANGED <<envKey, server>>
  /\ UNCHANGED <<sysVars, exVars, mailVars, catVars>>

\* DELETE /gmail: the user's oauth is set to {}
Disconnect ==
  /\ server = "listening"
  /\ oauth' = NoTokens
  /\ sealed' = None
  /\ vaultOut' = None
  /\ client' = None
  /\ UNCHANGED <<envKey, server>>
  /\ UNCHANGED <<sysVars, exVars, mailVars, catVars>>

\* accessToken || undefined
OrUndefined(r) == IF r.status = "value" /\ r.value # <<>> THEN Some(r.value) ELSE None

\* a getGmailClient that drops from the user record a token it could not use
BuildClient_writeBack ==
  /\ server = "listening"
  /\ \E a \in {Open(oauth.accessToken)} :
     \E b \in {IF a.status = "threw" THEN NotRun ELSE Open(oauth.refreshToken)} :
       /\ vaultOut' = Some([op |-> "client", accessToken |-> a, refreshToken |-> b,
                            given |-> oauth])
       /\ client' = IF a.status = "threw" \/ b.status = "threw" THEN None
                    ELSE Some([access_token |-> OrUndefined(a),
                               refresh_token |-> OrUndefined(b)])
       /\ oauth' = IF a.status = "threw" THEN [oauth EXCEPT !.accessToken = None] ELSE oauth
  /\ UNCHANGED <<envKey, server, sealed>>
  /\ UNCHANGED <<sysVars, exVars, mailVars, catVars>>

\* getGmailClient(user): both tokens are decrypted; an error of decrypt is
\* thrown to the route, and no client is returned
BuildClient ==
  /\ server = "listening"
  /\ \E a \in {Open(oauth.accessToken)} :
     \E b \in {IF a.status = "threw" THEN NotRun ELSE Open(oauth.refreshToken)} :
       /\ vaultOut' = Some([op |-> "client", accessToken |-> a, refreshToken |-> b,
                            given |-> oauth])
       /\ client' = IF a.status = "threw" \/ b.status = "threw" THEN None
                    ELSE Some([access_token |-> OrUndefined(a),
                               refresh_token |-> OrUndefined(b)])
  /\ UNCHANGED <<envKey, server, oauth, sealed>>
  /\ UNCHANGED <<sysVars, exVars, mailVars, catVars>>

VaultNext ==
  \/ Startup
  \/ \E k \in EnvKeys : Restart(k)
  \/ \E x \in AccessTokens, y \in RefreshTokens, iv1 \in IvSet, iv2 \in IvSet :
       Login(x, y, iv1, iv2)
  \/ \E field \in Fields, region \in Regions : Tamper(field, region)
  \/ BuildClient
  \/ Disconnect

SpecVault == VaultInit /\ [][VaultNext]_vars

(* ---------------------------------------------------------------------- *)
(* Properties of the vault                                                *)
(* ---------------------------------------------------------------------- *)

\* the mail client has just been constructed, or its construction has thrown
Built == vaultOut # None /\ vaultOut[1].op = "client"

\* the stored blobs are what the last login's encrypt returned, and the key is
\* the one it used
Untouched == sealed # None /\ sealed[1].intact /\ sealed[1].key = envKey

\* a string every code unit of which UTF-8 can encode
WellFormed(t) == \A i \in 1..Len(t) : t[i] # LoneSurrogate

NonEmpty(token) == token # None /\ token[1] # <<>>

\* C14 as stated, for every non-empty string: a token handed to encrypt comes
\* back from decrypt of the blob encrypt returned, under the same key, whatever
\* the nonce.
C14_RoundTripAll ==
  (Built /\ Untouched) =>
    \A field \in Fields :
      NonEmpty(sealed[1][field]) => vaultOut[1][field] = VaultValue(sealed[1][field][1])

\* C14 (vault round trip), for strings without a lone surrogate: with a valid
\* key configured, a non-empty well-formed string handed to encrypt comes back
\* unchanged from decrypt of the blob encrypt returned, for every nonce drawn.
C14_RoundTrip ==
  (Built /\ Untouched) =>
    \A field \in Fields :
      (NonEmpty(sealed[1][field]) /\ WellFormed(sealed[1][field][1])) =>
        vaultOut[1][field] = VaultValue(sealed[1][field][1])

\* a token of a two-byte character and the refresh token have come back
C14_Witness ==
  /\ Built
  /\ Untouched
  /\ ValidKey(envKey)
  /\ sealed[1].accessToken = Some(<<CharEAcute>>)
  /\ vaultOut[1].accessToken = VaultValue(<<CharEAcute>>)
  /\ sealed[1].refreshToken = Some(<<"r">>)
  /\ client = Some([access_token |-> Some(<<CharEAcute>>), refresh_token |-> Some(<<"r">>)])

\* the stored blob of the field is not what encrypt returned under the key now
\* configured: a byte of it was changed, or the key is another
Foreign(field) ==
  /\ sealed # None
  /\ oauth[field] # None
  /\ sealed[1].changed = field \/ sealed[1].key # envKey

\* C15 (tamper detection): when a stored blob differs from what encrypt
\* produced in its nonce, tag or ciphertext, or was produced under another
\* key, constructing the mail client throws: no client is returned, decrypt
\* hands out no plaintext for that blob, and with a valid key configured the
\* error is the failed authentication of decipher.final().
C15_TamperDetected ==
  (Built /\ \E field \in Fields : Foreign(field)) =>
    /\ client = None
    /\ \A field \in Fields :
         Foreign(field) => vaultOut[1][field].status \in {"threw", "notrun"}
    /\ ValidKey(envKey) => \E field \in Fields :
         Foreign(field) /\ vaultOut[1][field] = VaultThrew("auth")

\* a changed byte in the access token's blob has made getGmailClient throw
C15_Witness ==
  /\ Built
  /\ sealed # None
  /\ sealed[1].changed = "accessToken"
  /\ sealed[1].key = envKey
  /\ vaultOut[1].accessToken = VaultThrew("auth")
  /\ client = None

\* null, undefined or the empty string
NoValue(x) == x = None \/ x[1] = <<>>

\* C16 (vault sentinel): encrypt of null, undefined or the empty string
\* returns null, which login stores as it is, and decrypt of null returns
\* null: neither throws, whatever ENCRYPTION_KEY is set to, the key being read
\* only after the test of the argument.
C16_Sentinel ==
  vaultOut # None =>
    \A field \in Fields :
      (NoValue(vaultOut[1].given[field]) /\ vaultOut[1][field] # NotRun) =>
        /\ vaultOut[1][field] = VaultNull
        /\ (vaultOut[1].op = "login" /\ sealed # None
               /\ sealed[1].intact /\ sealed[1].accessToken = vaultOut[1].given.accessToken
               /\ sealed[1].refreshToken = vaultOut[1].given.refreshToken
               /\ \A f \in Fields : vaultOut[1][f].status # "threw")
            => oauth[field] = None

\* with no usable key configured, the empty string was stored as null at
\* login and the mail client was built without credentials
C16_Witness ==
  /\ ~ValidKey(envKey)
  /\ Built
  /\ sealed # None
  /\ sealed[1].accessToken = Some(<<>>)
  /\ oauth = NoTokens
  /\ vaultOut[1].accessToken = VaultNull
  /\ vaultOut[1].refreshToken = VaultNull
  /\ client = Some([access_token |-> None, refresh_token |-> None])

\* the test of getKey(): the key is set and 64 characters long
KeyPresent(k) == k # None /\ Len(k[1]) = KeyChars

\* C17 (fail-fast configuration): the server is listening, or has served a
\* login or built a mail client, only with an encryption key that is set and
\* of the right length.
C17_FailFast == (server = "listening" \/ vaultOut # None) => KeyPresent(envKey)
\* a step of the login flow that stored tokens, of the disconnect operation,
\* or of a change of a stored blob outside the server
LoginStep == vaultOut' # None /\ vaultOut'[1].op = "login"

DisconnectStep == vaultOut' = None /\ sealed' = None /\ oauth' = NoTokens

TamperStep ==
  /\ sealed # None /\ sealed[1].intact
  /\ sealed' # None /\ ~sealed'[1].intact /\ sealed'[1].changed \in Fields

====
